---- MODULE Spec2Model ----
(***************************************************************************)
(* Resource governance and provider fallback of youtube-knowledge-mcp:     *)
(* the quota ledger (QuotaManager), the response cache (CacheManager), the *)
(* content tools that consult both, the upstream client's own counter      *)
(* (YouTubeClient) and the generation broker (RobustLLMService).           *)
(*                                                                         *)
(* Strings that the code inspects byte by byte (cache keys, JSON text,     *)
(* base64) are sequences of byte values.  Times are milliseconds, as       *)
(* Date.now() returns them; TTLs are seconds, as the code stores them.     *)
(***************************************************************************)
EXTENDS Integers, Sequences, FiniteSets, TLC

VARIABLES
    now,          \* Date.now(), ms
    memoryCache,  \* CacheManager.memoryCache : key -> [data, timestamp, ttl]
    cacheRet,     \* what the last direct cache call did (observer of get/set/del/clear)
    config,       \* QuotaManager.config
    usage,        \* QuotaManager.usage
    hydrate,      \* the loadQuotaFromCache() promise started by the constructor
    resetTime,    \* QuotaManager.resetTime, ms
    quotaUsed,    \* YouTubeClient.quotaUsed
    exec,         \* the tool executions in flight, one record per logical caller
    providers,    \* RobustLLMService.providers : name -> currentUsage
    userQuotas,   \* RobustLLMService.userQuotas : userId -> [daily, hourly]
    gen,          \* the generateWithFallback call in flight (or its outcome)
    issued,       \* per caller: the estimates of the calls issued in this hourly window
    useRedis,     \* CacheManager.useRedis
    redisStore    \* the Redis database: key -> the entry stored by setex

vars == <<now, memoryCache, cacheRet, config, usage, hydrate, resetTime, quotaUsed, exec,
          providers, userQuotas, gen, issued, useRedis, redisStore>>

cacheVars  == <<memoryCache, cacheRet>>
ledgerVars == <<config, usage, hydrate, resetTime>>
toolVars   == <<quotaUsed, exec>>
brokerVars == <<providers, userQuotas, gen>>
guardVars == <<issued>>
storeVars == <<useRedis, redisStore>>

-----------------------------------------------------------------------------
(* Byte strings *)

\* "quota:daily_usage"
QuotaKey == <<113, 117, 111, 116, 97, 58, 100, 97, 105, 108, 121, 95, 117, 115, 97, 103, 101>>
\* "transcript:"
PrefixTranscript == <<116, 114, 97, 110, 115, 99, 114, 105, 112, 116, 58>>
\* "video:"
PrefixVideo == <<118, 105, 100, 101, 111, 58>>
\* "search:"
PrefixSearch == <<115, 101, 97, 114, 99, 104, 58>>
\* "comments:"
PrefixComments == <<99, 111, 109, 109, 101, 110, 116, 115, 58>>
\* "trending:"
PrefixTrending == <<116, 114, 101, 110, 100, 105, 110, 103, 58>>
\* "channel:"
PrefixChannel == <<99, 104, 97, 110, 110, 101, 108, 58>>
\* "channels:"
PrefixChannels == <<99, 104, 97, 110, 110, 101, 108, 115, 58>>
\* "llm:"
PrefixLlm == <<108, 108, 109, 58>>

Min(a, b) == IF a <= b THEN a ELSE b
Max(a, b) == IF a >= b THEN a ELSE b

\* String.prototype.startsWith
StartsWith(s, p) == Len(s) >= Len(p) /\ SubSeq(s, 1, Len(p)) = p

\* String.prototype.slice(0, n)
Slice0(s, n) == SubSeq(s, 1, Min(n, Len(s)))

\* the base64 alphabet: the character that stands for a 6-bit value
B64Char(n) ==
    IF n < 26 THEN 65 + n
    ELSE IF n < 52 THEN 97 + (n - 26)
    ELSE IF n < 62 THEN 48 + (n - 52)
    ELSE IF n = 62 THEN 43 ELSE 47

\* Buffer.from(bytes).toString('base64'), padded with "=" (61)
Base64(bytes) ==
    LET n == Len(bytes)
        byteAt(i) == IF i <= n THEN bytes[i] ELSE 0
        ch(j) ==
            LET g  == (j - 1) \div 4
                k  == (j - 1) % 4
                b0 == byteAt(3 * g + 1)
                b1 == byteAt(3 * g + 2)
                b2 == byteAt(3 * g + 3)
            IN  CASE k = 0 -> B64Char(b0 \div 4)
                  [] k = 1 -> B64Char((b0 % 4) * 16 + (b1 \div 16))
                  [] k = 2 -> IF 3 * g + 2 > n THEN 61
                              ELSE B64Char((b1 % 16) * 4 + (b2 \div 64))
                  [] k = 3 -> IF 3 * g + 3 > n THEN 61 ELSE B64Char(b2 % 64)
    IN  [j \in 1..(4 * ((n + 2) \div 3)) |-> ch(j)]

-----------------------------------------------------------------------------
(* Payloads.  Every cached value is a record with a `kind`; Null is the    *)
(* JavaScript null that get() returns for "absent".                        *)

Null == [kind |-> "null"]
Num(n) == [kind |-> "num", v |-> n]

-----------------------------------------------------------------------------
(* CacheManager, memory path (useRedis is false unless a 'connect' event   *)
(* arrives, and with lazyConnect nothing in the repository connects).      *)

\* caching section of the default configuration, seconds
TtlTranscripts == 86400
TtlVideoDetails == 3600
TtlSearchResults == 1800
TtlComments == 7200
TtlFallback == 3600

getDefaultTTL(key) ==
    IF StartsWith(key, PrefixTranscript) THEN TtlTranscripts
    ELSE IF StartsWith(key, PrefixVideo) THEN TtlVideoDetails
    ELSE IF StartsWith(key, PrefixSearch) THEN TtlSearchResults
    ELSE IF StartsWith(key, PrefixComments) THEN TtlComments
    ELSE IF StartsWith(key, PrefixTrending) THEN TtlSearchResults
    ELSE IF StartsWith(key, PrefixChannel) THEN TtlVideoDetails
    ELSE TtlFallback

isExpired(entry, t) == t - entry.timestamp > entry.ttl * 1000

MapWithout(m, key) == [k \in DOMAIN m \ {key} |-> m[k]]
MapWith(m, key, val) == [k \in DOMAIN m \cup {key} |-> IF k = key THEN val ELSE m[k]]

\* a get that hands out whatever is stored
CacheGetValue_NoExpiry(mc, key, t) ==
    IF key \in DOMAIN mc THEN mc[key].data ELSE Null

\* get(key): the value returned
CacheGetValue(mc, key, t) ==
    IF key \in DOMAIN mc
    THEN IF isExpired(mc[key], t) THEN Null ELSE mc[key].data
    ELSE Null

\* a get that renews the age of the entry it returns
CacheGetMap_Touch(mc, key, t) ==
    IF key \in DOMAIN mc
    THEN IF isExpired(mc[key], t) THEN MapWithout(mc, key)
         ELSE MapWith(mc, key, [mc[key] EXCEPT !.timestamp = t])
    ELSE mc

\* get(key): the map it leaves (an expired entry found is deleted)
CacheGetMap(mc, key, t) ==
    IF key \in DOMAIN mc /\ isExpired(mc[key], t) THEN MapWithout(mc, key) ELSE mc

\* a set that keeps the age of the entry it replaces
CacheSetMap_KeepAge(mc, key, data, ttl, t) ==
    MapWith(mc, key, [data |-> data,
                      timestamp |-> IF key \in DOMAIN mc THEN mc[key].timestamp ELSE t,
                      ttl |-> IF ttl # 0 THEN ttl ELSE getDefaultTTL(key)])

\* set(key, data, ttl): ttl 0 stands for an omitted (or zero) ttl, both falsy
CacheSetMap(mc, key, data, ttl, t) ==
    MapWith(mc, key, [data |-> data, timestamp |-> t,
                      ttl |-> IF ttl # 0 THEN ttl ELSE getDefaultTTL(key)])

CacheDelMap(mc, key) == MapWithout(mc, key)

CacheClearMap == << >>

\* a sweep that stops at the first expired entry it deletes
CacheCleanupMap_FirstOnly(mc, t) ==
    LET dead == {k \in DOMAIN mc : isExpired(mc[k], t)}
    IN  IF dead = {} THEN mc
        ELSE MapWithout(mc, CHOOSE k \in dead : TRUE)

\* cleanupMemoryCache(): the 5-minute sweep
CacheCleanupMap(mc, t) ==
    LET live == {k \in DOMAIN mc : ~isExpired(mc[k], t)}
    IN  [k \in live |-> mc[k]]

-----------------------------------------------------------------------------
(* QuotaManager *)

\* quotaManagement defaults, with warningThreshold added by initializeComponents
DefaultConfig == [dailyLimit |-> 8000, reserveBuffer |-> 1000, warningThreshold |-> 75]

QuotaTtl == 86400

\* a check that forgets the reserve buffer
canPerformOperation_NoReserve(cfg, used, cost) ==
    used + cost <= cfg.dailyLimit

\* a check that refuses to spend the last unit
canPerformOperation_Strict(cfg, used, cost) ==
    used + cost < cfg.dailyLimit - cfg.reserveBuffer

canPerformOperation(cfg, used, cost) ==
    LET availableQuota == cfg.dailyLimit - cfg.reserveBuffer
    IN  used + cost <= availableQuota

\* an available quota that takes the reserve off twice
getAvailableQuota_ReserveTwice(cfg, used) ==
    Max(0, (cfg.dailyLimit - 2 * cfg.reserveBuffer) - used)

getAvailableQuota(cfg, used) ==
    Max(0, (cfg.dailyLimit - cfg.reserveBuffer) - used)

\* recordUsage(cost): this.usage += cost, then the total is persisted
RecordUsage(cost) ==
    /\ usage' = usage + cost
    /\ memoryCache' = CacheSetMap(memoryCache, QuotaKey, Num(usage + cost), QuotaTtl, now)

HourMs == 3600 * 1000
DayMs == 24 * HourMs

\* getNextResetTime(): 07:00 UTC of the day after the current UTC date
\* (time 0 is a midnight UTC)
getNextResetTime(t) == (t \div DayMs + 1) * DayMs + 7 * HourMs

\* a reset that forgets the persisted counter
AfterReset_KeepsPersisted(mc) == [usage |-> 0, cache |-> mc]

\* resetDailyQuota(): the counter and the store it leaves
AfterReset(mc) == [usage |-> 0, cache |-> CacheDelMap(mc, QuotaKey)]

ResetDailyQuota ==
    /\ usage' = AfterReset(memoryCache).usage
    /\ resetTime' = getNextResetTime(now)
    /\ memoryCache' = AfterReset(memoryCache).cache

\* the constructor's loadQuotaFromCache(): the read happens at once, the
\* assignment when the promise's continuation runs
HydrateStart(mc, t) == [pending |-> TRUE, value |-> CacheGetValue(mc, QuotaKey, t)]
HydrateDone == [pending |-> FALSE, value |-> Null]

\* a hydration that drops what it read
loadQuotaFromCache_Dropped(cachedUsage, used) == used

\* loadQuotaFromCache() after its await: the usage it leaves
loadQuotaFromCache(cachedUsage, used) ==
    IF cachedUsage # Null THEN cachedUsage.v ELSE used

-----------------------------------------------------------------------------
(* Initial values of the parts a specification does not exercise *)

ProviderNames == {"openai", "anthropic"}

InitCache ==
    /\ memoryCache = << >> /\ cacheRet = [op |-> "none"]
    /\ useRedis = FALSE /\ redisStore = << >>
InitClock == now = 0
InitLedger(cfgs) ==
    /\ config \in cfgs
    /\ usage = 0
    /\ hydrate = HydrateStart(<< >>, 0)
    /\ resetTime = getNextResetTime(0)
InitTools == quotaUsed = 0 /\ exec = << >>
\* a process started without provider keys, and nobody calling generate
InitBroker ==
    /\ providers = << >>
    /\ userQuotas = << >>
    /\ gen = << >>
    /\ issued = << >>

-----------------------------------------------------------------------------
(* The ledger driven directly through its interface by one caller *)

LedgerTickMs == 12 * 3600 * 1000
MaxLedgerTicks == 3

\* costs passed to canPerformOperation/recordUsage: a search (100) and two batches
ApiCosts == {100, 1000, 2500}

\* canPerformOperation(cost) answered true, then recordUsage(cost)
LedgerAdmitRecord ==
    \E cost \in ApiCosts :
        /\ canPerformOperation(config, usage, cost)
        /\ RecordUsage(cost)
        /\ cacheRet' = [op |-> "set", key |-> QuotaKey]
        /\ UNCHANGED <<now, config, resetTime, hydrate, toolVars, brokerVars, guardVars, storeVars>>

\* the continuation of loadQuotaFromCache()
LedgerLoadQuota ==
    /\ hydrate.pending
    /\ usage' = loadQuotaFromCache(hydrate.value, usage)
    /\ hydrate' = HydrateDone
    /\ UNCHANGED <<now, cacheVars, config, resetTime, toolVars, brokerVars, guardVars, storeVars>>

\* the timer set by scheduleReset()
LedgerReset ==
    /\ ResetDailyQuota
    /\ cacheRet' = [op |-> "del", key |-> QuotaKey]
    /\ UNCHANGED <<now, config, hydrate, toolVars, brokerVars, guardVars, storeVars>>

\* a new QuotaManager over the same CacheManager
LedgerConstruct ==
    /\ ~hydrate.pending
    /\ usage' = 0
    /\ resetTime' = getNextResetTime(now)
    /\ hydrate' = HydrateStart(memoryCache, now)
    /\ memoryCache' = CacheGetMap(memoryCache, QuotaKey, now)
    /\ cacheRet' = [op |-> "get", key |-> QuotaKey]
    /\ UNCHANGED <<now, config, toolVars, brokerVars, guardVars, storeVars>>

LedgerTick ==
    /\ now < MaxLedgerTicks * LedgerTickMs
    /\ now' = now + LedgerTickMs
    /\ UNCHANGED <<cacheVars, ledgerVars, toolVars, brokerVars, guardVars, storeVars>>

InitLedgerSpec ==
    InitClock /\ InitCache /\ InitLedger({DefaultConfig}) /\ InitTools /\ InitBroker

NextLedger ==
    \/ LedgerAdmitRecord
    \/ LedgerLoadQuota
    \/ LedgerReset
    \/ LedgerConstruct
    \/ LedgerTick

SpecLedger == InitLedgerSpec /\ [][NextLedger]_vars

\* C1: with every recordUsage(cost) preceded by a canPerformOperation(cost) that
\* answered true, usedUnits never exceeds dailyLimit - reserveBuffer, whatever
\* resets, constructions and hydrations happen in between.
C1_AdmissionNeverExceedsBudget ==
    usage <= config.dailyLimit - config.reserveBuffer

\* the budget's edge is reached by recorded usage, and the total is persisted
C1_Witness ==
    /\ usage = config.dailyLimit - config.reserveBuffer
    /\ QuotaKey \in DOMAIN memoryCache
    /\ memoryCache[QuotaKey].data = Num(usage)
    /\ ~canPerformOperation(config, usage, 100)

\* the costs the tools pass that are at most m, and the ends of 0..m
CostsUpTo(m) == {0, 1, m - 1, m} \cup {c \in ApiCosts : c <= m}

\* the step is a resetDailyQuota() of the ledger
IsReset ==
    /\ cacheRet'.op = "del"
    /\ now' = now
    /\ hydrate' = hydrate

\* C14: resetDailyQuota() leaves usedUnits at 0 and no persisted counter,
\* canPerformOperation(cost) is then true for every cost up to
\* dailyLimit - reserveBuffer, and a second reset at once changes nothing.
C14_ResetClearsLedger ==
    [][IsReset =>
          /\ usage' = 0
          /\ QuotaKey \notin DOMAIN memoryCache'
          /\ memoryCache' = MapWithout(memoryCache, QuotaKey)
          /\ \A cost \in CostsUpTo(config'.dailyLimit - config'.reserveBuffer) :
                 canPerformOperation(config', usage', cost)
          /\ AfterReset(memoryCache') = [usage |-> usage', cache |-> memoryCache']]_vars

\* a reset has just wiped recorded usage that had been persisted
C14_Witness ==
    /\ cacheRet.op = "del"
    /\ usage = 0
    /\ QuotaKey \notin DOMAIN memoryCache
    /\ hydrate.pending
    /\ hydrate.value # Null
    /\ canPerformOperation(config, usage, config.dailyLimit - config.reserveBuffer)

\* the step is the construction of a new ledger
IsConstruct == ~hydrate.pending /\ hydrate'.pending

\* C15: apart from resetDailyQuota(), which sets it to 0, no step of a ledger
\* lowers usedUnits, however the hydration started by its constructor
\* interleaves with recordUsage calls.
C15_UsageNeverLoweredBetweenResets ==
    [][usage' < usage => (IsConstruct \/ (IsReset /\ usage' = 0))]_vars

-----------------------------------------------------------------------------
(* The cache driven directly through its interface *)

\* "search:abc"
KeySearchAbc == <<115, 101, 97, 114, 99, 104, 58, 97, 98, 99>>
\* "note"
KeyPlain == <<110, 111, 116, 101>>

CacheKeys == {KeySearchAbc, KeyPlain}
Payload(n) == [kind |-> "res", v |-> n]
MaxPayload == 2
Payloads == {Payload(n) : n \in 1..MaxPayload}
\* ttl arguments of set, seconds; 0 is the omitted argument
MaxTtlArg == 1
TtlArgs == 0..MaxTtlArg

CacheSmallTickMs == 500
\* one second short of the search lifetime
CacheBigTickMs == (TtlSearchResults - 1) * 1000
MaxSmallTicks == 4
MaxBigTicks == 1

CacheGet ==
    \E k \in CacheKeys :
        /\ cacheRet' = [op |-> "get", key |-> k,
                        value |-> CacheGetValue(memoryCache, k, now),
                        found |-> (IF k \in DOMAIN memoryCache THEN memoryCache[k]
                                   ELSE Null),
                        evicted |-> (CacheGetMap(memoryCache, k, now) # memoryCache)]
        /\ memoryCache' = CacheGetMap(memoryCache, k, now)
        /\ UNCHANGED <<now, ledgerVars, toolVars, brokerVars, guardVars, storeVars>>

CacheSet ==
    \E k \in CacheKeys, d \in Payloads, ttl \in TtlArgs :
        /\ memoryCache' = CacheSetMap(memoryCache, k, d, ttl, now)
        /\ cacheRet' = [op |-> "set", key |-> k, data |-> d, ttl |-> ttl]
        /\ UNCHANGED <<now, ledgerVars, toolVars, brokerVars, guardVars, storeVars>>

CacheDel ==
    \E k \in CacheKeys :
        /\ memoryCache' = CacheDelMap(memoryCache, k)
        /\ cacheRet' = [op |-> "del", key |-> k]
        /\ UNCHANGED <<now, ledgerVars, toolVars, brokerVars, guardVars, storeVars>>

CacheClear ==
    /\ memoryCache' = CacheClearMap
    /\ cacheRet' = [op |-> "clear"]
    /\ UNCHANGED <<now, ledgerVars, toolVars, brokerVars, guardVars, storeVars>>

\* the setInterval of the constructor
CacheSweep ==
    /\ memoryCache' = CacheCleanupMap(memoryCache, now)
    /\ cacheRet' = [op |-> "sweep",
                    removed |-> DOMAIN memoryCache \ DOMAIN CacheCleanupMap(memoryCache, now)]
    /\ UNCHANGED <<now, ledgerVars, toolVars, brokerVars, guardVars, storeVars>>

CacheSmallTick ==
    /\ now % CacheBigTickMs < MaxSmallTicks * CacheSmallTickMs
    /\ now' = now + CacheSmallTickMs
    /\ cacheRet' = [op |-> "tick"]
    /\ UNCHANGED <<memoryCache, ledgerVars, toolVars, brokerVars, guardVars, storeVars>>

CacheBigTick ==
    /\ now < MaxBigTicks * CacheBigTickMs
    /\ now' = now + CacheBigTickMs
    /\ cacheRet' = [op |-> "tick"]
    /\ UNCHANGED <<memoryCache, ledgerVars, toolVars, brokerVars, guardVars, storeVars>>

InitCacheSpec ==
    InitClock /\ InitCache /\ InitLedger({DefaultConfig}) /\ InitTools /\ InitBroker

NextCache ==
    \/ CacheGet
    \/ CacheSet
    \/ CacheDel
    \/ CacheClear
    \/ CacheSweep
    \/ CacheSmallTick
    \/ CacheBigTick

SpecCache == InitCacheSpec /\ [][NextCache]_vars

\* C4: a get(key) step returns the stored payload exactly when the entry under
\* the key is at most ttl seconds old, leaving the map as it was; otherwise it
\* returns null and no entry is stored under the key afterwards.
C4_GetNeverReturnsExpired ==
    [][cacheRet'.op = "get" =>
        LET k == cacheRet'.key
            valid == /\ k \in DOMAIN memoryCache
                     /\ now - memoryCache[k].timestamp <= memoryCache[k].ttl * 1000
        IN  /\ cacheRet'.value = (IF valid THEN memoryCache[k].data ELSE Null)
            /\ valid => memoryCache' = memoryCache
            /\ ~valid => k \notin DOMAIN memoryCache']_vars

\* a get found an entry past its ttl, removed it and answered null
C4_Witness ==
    /\ cacheRet.op = "get"
    /\ cacheRet.evicted
    /\ cacheRet.value = Null
    /\ cacheRet.key \notin DOMAIN memoryCache

\* C13: set(f, v, ttl) stores v with the age restarted, replacing what was
\* under f, so that a get at once returns v; a get returns the payload of the
\* latest set while at most ttl seconds have passed since it (the category
\* lifetime when the ttl is omitted) and absent afterwards; an entry under a
\* search key stored without ttl is a hit 1799 s later and a miss 1801 s later.
C13_SetGetRoundTrip ==
    [][/\ cacheRet'.op = "set" =>
            LET k == cacheRet'.key
                lifetime == IF cacheRet'.ttl # 0 THEN cacheRet'.ttl
                            ELSE getDefaultTTL(k)
            IN  /\ k \in DOMAIN memoryCache'
                /\ memoryCache'[k] = [data |-> cacheRet'.data, timestamp |-> now,
                                      ttl |-> lifetime]
                /\ CacheGetValue(memoryCache', k, now') = cacheRet'.data
                /\ CacheGetMap(memoryCache', k, now') = memoryCache'
                /\ (k = KeySearchAbc /\ cacheRet'.ttl = 0) => lifetime = 1800
       /\ cacheRet'.op = "get" =>
            LET e == cacheRet'.found
                age == now - e.timestamp
            IN  IF e = Null THEN cacheRet'.value = Null
                ELSE /\ age > e.ttl * 1000 => cacheRet'.value = Null
                     /\ age <= e.ttl * 1000 => cacheRet'.value = e.data
                     /\ (e.ttl = 1800 /\ age <= 1799 * 1000) => cacheRet'.value = e.data
                     /\ (e.ttl = 1800 /\ age >= 1801 * 1000) => cacheRet'.value = Null]_vars

\* "search:abc" was stored at t=0 without ttl; the get at t=1801 s misses
C13_Witness ==
    /\ cacheRet.op = "get"
    /\ cacheRet.key = KeySearchAbc
    /\ cacheRet.found # Null
    /\ cacheRet.found.timestamp = 0
    /\ cacheRet.found.ttl = TtlSearchResults
    /\ now = 1801 * 1000
    /\ cacheRet.value = Null

\* the same entry read at t=1799 s is a hit
C13_WitnessHit ==
    /\ cacheRet.op = "get"
    /\ cacheRet.key = KeySearchAbc
    /\ cacheRet.found # Null
    /\ cacheRet.found.timestamp = 0
    /\ cacheRet.found.ttl = TtlSearchResults
    /\ now = 1799 * 1000
    /\ cacheRet.value = cacheRet.found.data

-----------------------------------------------------------------------------
(* The content tools: YouTubeSearchTool, VideoDetailsTool,                 *)
(* TrendingVideosTool, ChannelSearchTool, and the YouTubeClient they call. *)

\* ":"
StrColon == <<58>>
\* "transcript"
StrTranscript == <<116, 114, 97, 110, 115, 99, 114, 105, 112, 116>>
\* "basic"
StrBasic == <<98, 97, 115, 105, 99>>
\* "comments"
StrComments == <<99, 111, 109, 109, 101, 110, 116, 115>>
\* "no-comments"
StrNoComments == <<110, 111, 45, 99, 111, 109, 109, 101, 110, 116, 115>>
\* "all"
StrAll == <<97, 108, 108>>
\* "US"
StrUS == <<85, 83>>
\* "GB"
StrGB == <<71, 66>>
\* "ai"
QueryAi == <<97, 105>>
\* "v1"
VideoV1 == <<118, 49>>
\* "{\"query\":\"ai\",\"maxResults\":10,\"order\":\"relevance\",\"videoDuration\":\"any\",\"videoDefinition\":\"any\"}"
JsonSearchAi == <<123, 34, 113, 117, 101, 114, 121, 34, 58, 34, 97, 105, 34, 44, 34, 109, 97, 120, 82, 101, 115, 117, 108, 116, 115, 34, 58, 49, 48, 44, 34, 111, 114, 100, 101, 114, 34, 58, 34, 114, 101, 108, 101, 118, 97, 110, 99, 101, 34, 44, 34, 118, 105, 100, 101, 111, 68, 117, 114, 97, 116, 105, 111, 110, 34, 58, 34, 97, 110, 121, 34, 44, 34, 118, 105, 100, 101, 111, 68, 101, 102, 105, 110, 105, 116, 105, 111, 110, 34, 58, 34, 97, 110, 121, 34, 125>>
\* "{\"query\":\"ai\",\"maxResults\":10,\"includeStats\":true,\"order\":\"relevance\"}"
JsonChannelsAiStats == <<123, 34, 113, 117, 101, 114, 121, 34, 58, 34, 97, 105, 34, 44, 34, 109, 97, 120, 82, 101, 115, 117, 108, 116, 115, 34, 58, 49, 48, 44, 34, 105, 110, 99, 108, 117, 100, 101, 83, 116, 97, 116, 115, 34, 58, 116, 114, 117, 101, 44, 34, 111, 114, 100, 101, 114, 34, 58, 34, 114, 101, 108, 101, 118, 97, 110, 99, 101, 34, 125>>
\* "{\"query\":\"ai\",\"maxResults\":10,\"includeStats\":false,\"order\":\"relevance\"}"
JsonChannelsAiNoStats == <<123, 34, 113, 117, 101, 114, 121, 34, 58, 34, 97, 105, 34, 44, 34, 109, 97, 120, 82, 101, 115, 117, 108, 116, 115, 34, 58, 49, 48, 44, 34, 105, 110, 99, 108, 117, 100, 101, 83, 116, 97, 116, 115, 34, 58, 102, 97, 108, 115, 101, 44, 34, 111, 114, 100, 101, 114, 34, 58, 34, 114, 101, 108, 101, 118, 97, 110, 99, 101, 34, 125>>
\* "{\"query\":\"ai\"}"
JsonFallbackAi == <<123, 34, 113, 117, 101, 114, 121, 34, 58, 34, 97, 105, 34, 125>>
\* "{\"query\":\"popular channels\"}"
JsonFallbackPopular == <<123, 34, 113, 117, 101, 114, 121, 34, 58, 34, 112, 111, 112, 117, 108, 97, 114, 32, 99, 104, 97, 110, 110, 101, 108, 115, 34, 125>>

\* the tool arguments after schema parsing; `json` is JSON.stringify(params)
Req(tool, id, json, maxResults, transcript, comments, stats) ==
    [tool |-> tool, id |-> id, json |-> json, maxResults |-> maxResults,
     includeTranscript |-> transcript, includeComments |-> comments,
     includeStats |-> stats]

NoReq == Req("none", << >>, << >>, 0, FALSE, FALSE, FALSE)
ReqSearch == Req("search", QueryAi, JsonSearchAi, 10, FALSE, FALSE, FALSE)
ReqDetailsBasic == Req("details", VideoV1, << >>, 0, FALSE, FALSE, FALSE)
ReqDetailsComments == Req("details", VideoV1, << >>, 0, FALSE, TRUE, FALSE)
ReqTrending == Req("trending", StrUS, << >>, 25, FALSE, FALSE, FALSE)
ReqChannelsStats == Req("channels", QueryAi, JsonChannelsAiStats, 10, FALSE, FALSE, TRUE)
ReqChannelsNoStats == Req("channels", QueryAi, JsonChannelsAiNoStats, 10, FALSE, FALSE, FALSE)

\* the requests the callers make, by name
ReqTable ==
    [search |-> ReqSearch, detailsBasic |-> ReqDetailsBasic,
     detailsComments |-> ReqDetailsComments, trending |-> ReqTrending,
     channelsStats |-> ReqChannelsStats, channelsNoStats |-> ReqChannelsNoStats,
     none |-> NoReq]

AllRequests == DOMAIN ReqTable \ {"none"}

getVideoDetailsKey(videoId, includeTranscript, includeComments) ==
    PrefixVideo \o videoId \o StrColon
        \o (IF includeTranscript THEN StrTranscript ELSE StrBasic) \o StrColon
        \o (IF includeComments THEN StrComments ELSE StrNoComments)

getSearchKey(query, paramsJson) == PrefixSearch \o Base64(query \o paramsJson)

\* category is the empty string when the argument is omitted
getTrendingKey(region, category) ==
    PrefixTrending \o region \o StrColon \o (IF category # << >> THEN category ELSE StrAll)

getChannelsKey(paramsJson) == PrefixChannels \o Base64(paramsJson)

ToolCacheKey(r) ==
    CASE r.tool = "search"   -> getSearchKey(r.id, r.json)
      [] r.tool = "details"  -> getVideoDetailsKey(r.id, r.includeTranscript, r.includeComments)
      [] r.tool = "trending" -> getTrendingKey(r.id, << >>)
      [] r.tool = "channels" -> getChannelsKey(r.json)

OperationName(r) ==
    CASE r.tool = "search"   -> "search"
      [] r.tool = "details"  -> "video_details"
      [] r.tool = "trending" -> "trending"
      [] r.tool = "channels" -> "channel_search"

getOperationCost(operation) ==
    CASE operation = "search"          -> 100
      [] operation = "video_details"   -> 1
      [] operation = "trending"        -> 1
      [] operation = "comments"        -> 1
      [] operation = "channel_details" -> 1
      [] operation = "channel_search"  -> 100
      [] OTHER                         -> 1

\* VideoDetailsTool.calculateOperationCost
calculateOperationCost(r) == 1 + (IF r.includeComments THEN 1 ELSE 0)

\* the cost a tool checks and then records
ToolCost(r) ==
    IF r.tool = "details" THEN calculateOperationCost(r)
    ELSE getOperationCost(OperationName(r))

\* ChannelSearchTool: Math.ceil(result.channels.length / 50)
ChannelAdditionalCost(n) == (n + 49) \div 50

\* an optimizer that never reduces a search
optimizeOperation_NoCap(cfg, used, operation, requestedItems) ==
    LET cost == getOperationCost(operation)
        availableQuota == getAvailableQuota(cfg, used)
    IN  IF cost > availableQuota THEN 0
        ELSE IF operation \in {"video_details", "channel_details"}
             THEN Min(requestedItems, availableQuota \div cost)
        ELSE requestedItems

optimizeOperation(cfg, used, operation, requestedItems) ==
    LET cost == getOperationCost(operation)
        availableQuota == getAvailableQuota(cfg, used)
    IN  IF cost > availableQuota THEN 0
        ELSE IF operation \in {"video_details", "channel_details"}
             THEN Min(requestedItems, availableQuota \div cost)
        ELSE IF operation \in {"search", "channel_search"} /\ used * 100 > 80 * cfg.dailyLimit
             THEN Min(requestedItems, 5)
        ELSE requestedItems

\* YouTubeClient.checkQuota passes
checkQuota(used, cost, limit) == ~(used + cost > limit)

\* cost of the first upstream call of the client method a tool invokes
ClientFirstCost(r) == IF r.tool \in {"search", "channels"} THEN 100 ELSE 1

Result(r) == [kind |-> "result", tool |-> r.tool]

\* ttl argument of the tool's cache.set (0 = omitted)
ToolTtlArg(r) == IF r.tool = "trending" THEN 1800 ELSE 0

\* keys the catch block looks up after a QuotaExceededError, in order
FallbackKeys(r) ==
    CASE r.tool = "search"   -> << >>
      [] r.tool = "details"  -> <<getVideoDetailsKey(r.id, FALSE, FALSE)>>
      [] r.tool = "trending" -> <<getTrendingKey(r.id, << >>), getTrendingKey(StrUS, << >>),
                                  getTrendingKey(StrGB, << >>)>>
      [] r.tool = "channels" -> <<getChannelsKey(JsonFallbackAi), getChannelsKey(JsonFallbackAi),
                                  getChannelsKey(JsonFallbackPopular)>>

\* cache.get on each key in turn until one hits: [map, hit]
RECURSIVE FallbackRun(_, _, _)
FallbackRun(mc, keys, t) ==
    IF keys = << >> THEN [map |-> mc, hit |-> FALSE]
    ELSE IF CacheGetValue(mc, Head(keys), t) # Null THEN [map |-> mc, hit |-> TRUE]
    ELSE FallbackRun(CacheGetMap(mc, Head(keys), t), Tail(keys), t)

\* evaluated once: the key of each request, and the keys its catch block tries
CacheKeyOf == [name \in AllRequests |-> ToolCacheKey(ReqTable[name])]
FallbackKeysOf == [name \in AllRequests |-> FallbackKeys(ReqTable[name])]

\* failed: an upstream request of this execution failed and the client went on
IdleExec ==
    [pc |-> "idle", req |-> "none", hit |-> FALSE, opt |-> 0, n |-> 0,
     failed |-> FALSE, out |-> "none"]

\* the execution returns or throws: `out` tells which
Finished(e, out) == [IdleExec EXCEPT !.req = e.req, !.out = out]

MaxItems == 1
NetResults == {"ok", "error", "quota403"}

\* execute() up to the await of cache.get
ToolStart(p, r) ==
    /\ exec[p].pc = "idle"
    /\ exec' = [exec EXCEPT ![p] =
           [IdleExec EXCEPT !.pc = "cacheChecked", !.req = r,
               !.hit = (CacheGetValue(memoryCache, CacheKeyOf[r], now) # Null)]]
    /\ memoryCache' = CacheGetMap(memoryCache, CacheKeyOf[r], now)
    /\ UNCHANGED <<now, cacheRet, ledgerVars, quotaUsed, brokerVars, guardVars, storeVars>>

\* from the cache answer to the first upstream call: the cached return, the
\* admission check, optimizeOperation and the client's own checkQuota
ToolAdmit(p) ==
    LET e == exec[p]
        r == ReqTable[e.req]
        opt == IF r.tool = "details" THEN 1
               ELSE optimizeOperation(config, usage, OperationName(r), r.maxResults)
    IN  /\ e.pc = "cacheChecked"
        /\ exec' = [exec EXCEPT ![p] =
               IF e.hit THEN Finished(e, "cached")
               ELSE IF ~canPerformOperation(config, usage, ToolCost(r))
                    THEN Finished(e, "quota_denied")
               ELSE IF opt = 0 THEN Finished(e, "quota_denied")
               ELSE IF ~checkQuota(quotaUsed, ClientFirstCost(r), config.dailyLimit)
                    THEN [e EXCEPT !.pc = "fallback"]
               ELSE [e EXCEPT !.pc = "net1", !.opt = opt]]
        /\ UNCHANGED <<now, cacheVars, ledgerVars, quotaUsed, brokerVars, guardVars, storeVars>>

\* what follows a successful first upstream call, inside the client method
AfterNet1Ok(e, n, used, limit) ==
    LET r == ReqTable[e.req]
        f == [e EXCEPT !.n = n]
    IN  CASE r.tool = "search" ->
                IF n = 0 THEN [f EXCEPT !.pc = "record"]
                ELSE IF ~checkQuota(used, 1, limit) THEN [f EXCEPT !.pc = "fallback"]
                ELSE [f EXCEPT !.pc = "net2"]
          [] r.tool = "details" ->
                IF n = 0 THEN Finished(e, "error")
                ELSE IF r.includeComments /\ checkQuota(used, 1, limit)
                     THEN [f EXCEPT !.pc = "net2"]
                ELSE [f EXCEPT !.pc = "record"]
          [] r.tool = "trending" -> [f EXCEPT !.pc = "record"]
          [] r.tool = "channels" ->
                IF r.includeStats /\ n > 0
                THEN IF ~checkQuota(used, 1, limit) THEN [f EXCEPT !.pc = "fallback"]
                     ELSE [f EXCEPT !.pc = "net2"]
                ELSE [f EXCEPT !.pc = "record"]

\* the first upstream call answers
ToolNet1(p) ==
    LET e == exec[p]
        r == ReqTable[e.req]
    IN
    /\ e.pc = "net1"
    /\ \E res \in NetResults, n \in 0..Min(e.opt, MaxItems) :
        /\ res # "ok" => n = 0
        /\ (res = "ok" /\ r.tool = "details") => n = 1
        /\ quotaUsed' = IF res = "ok" THEN quotaUsed + ClientFirstCost(r) ELSE quotaUsed
        /\ exec' = [exec EXCEPT ![p] =
               CASE res = "ok" -> AfterNet1Ok(e, n, quotaUsed + ClientFirstCost(r),
                                              config.dailyLimit)
                 [] res = "error" -> Finished(e, "error")
                 [] res = "quota403" -> [e EXCEPT !.pc = "fallback"]]
    /\ UNCHANGED <<now, cacheVars, ledgerVars, brokerVars, guardVars, storeVars>>

\* the second upstream call answers (videos.list, commentThreads.list, channels.list)
ToolNet2(p) ==
    LET e == exec[p]
        r == ReqTable[e.req]
    IN
    /\ e.pc = "net2"
    /\ \E res \in NetResults, n2 \in 0..e.n :
        /\ (res # "ok" \/ r.tool # "channels") => n2 = e.n
        /\ quotaUsed' = IF res = "ok" THEN quotaUsed + 1 ELSE quotaUsed
        /\ exec' = [exec EXCEPT ![p] =
               CASE res = "ok" -> [e EXCEPT !.pc = "record", !.n = n2]
                 [] res # "ok" /\ r.tool = "details" ->
                        [e EXCEPT !.pc = "record", !.failed = TRUE]
                 [] res = "error" /\ r.tool # "details" -> Finished(e, "error")
                 [] res = "quota403" /\ r.tool # "details" -> [e EXCEPT !.pc = "fallback"]]
    /\ UNCHANGED <<now, cacheVars, ledgerVars, brokerVars, guardVars, storeVars>>

\* await quotaManager.recordUsage(operationCost, ...)
ToolRecord(p) ==
    LET e == exec[p]
        r == ReqTable[e.req]
    IN
    /\ e.pc = "record"
    /\ RecordUsage(ToolCost(r))
    /\ exec' = [exec EXCEPT ![p] =
           [e EXCEPT !.pc = IF r.tool = "channels" /\ r.includeStats
                            THEN "record2" ELSE "store"]]
    /\ UNCHANGED <<now, cacheRet, config, resetTime, hydrate, quotaUsed, brokerVars, guardVars, storeVars>>

\* ChannelSearchTool: await quotaManager.recordUsage(additionalCost, 'channel_details')
ToolRecord2(p) ==
    LET e == exec[p] IN
    /\ e.pc = "record2"
    /\ RecordUsage(ChannelAdditionalCost(e.n))
    /\ exec' = [exec EXCEPT ![p] = [e EXCEPT !.pc = "store"]]
    /\ UNCHANGED <<now, cacheRet, config, resetTime, hydrate, quotaUsed, brokerVars, guardVars, storeVars>>

\* await cache.set(cacheKey, result), then return
ToolStore(p) ==
    LET e == exec[p] IN
    /\ e.pc = "store"
    /\ memoryCache' = CacheSetMap(memoryCache, CacheKeyOf[e.req], Result(ReqTable[e.req]),
                                  ToolTtlArg(ReqTable[e.req]), now)
    /\ exec' = [exec EXCEPT ![p] = Finished(e, "fresh")]
    /\ UNCHANGED <<now, cacheRet, ledgerVars, quotaUsed, brokerVars, guardVars, storeVars>>

\* the catch block on a QuotaExceededError
ToolFallback(p) ==
    LET e == exec[p]
        f == FallbackRun(memoryCache, FallbackKeysOf[e.req], now)
    IN
    /\ e.pc = "fallback"
    /\ memoryCache' = f.map
    /\ exec' = [exec EXCEPT ![p] =
           Finished(e, IF f.hit THEN "degraded" ELSE "quota_error")]
    /\ UNCHANGED <<now, cacheRet, ledgerVars, quotaUsed, brokerVars, guardVars, storeVars>>

\* the scheduleReset() timer
ToolsReset ==
    /\ ResetDailyQuota
    /\ UNCHANGED <<now, cacheRet, config, hydrate, toolVars, brokerVars, guardVars, storeVars>>

\* a configuration file whose budget two searches exhaust
ToolConfig == [dailyLimit |-> 300, reserveBuffer |-> 100, warningThreshold |-> 75]

InitToolsSpec(callers) ==
    /\ InitClock /\ InitCache /\ InitLedger({ToolConfig}) /\ InitBroker
    /\ quotaUsed = 0
    /\ exec = [p \in callers |-> IdleExec]

ToolStep(p) ==
    \/ ToolAdmit(p)
    \/ ToolNet1(p)
    \/ ToolNet2(p)
    \/ ToolRecord(p)
    \/ ToolRecord2(p)
    \/ ToolStore(p)
    \/ ToolFallback(p)

(* one caller: the tools run one at a time *)
SeqCallers == {"a"}

NextTools ==
    \/ \E p \in SeqCallers, r \in AllRequests : ToolStart(p, r)
    \/ \E p \in SeqCallers : ToolStep(p)
    \/ LedgerLoadQuota
    \/ ToolsReset

SpecTools == InitToolsSpec(SeqCallers) /\ [][NextTools]_vars

\* C3: with the tools run one at a time, usedUnits never exceeds
\* dailyLimit - reserveBuffer once a tool has run.
C3_ToolsNeverExceedBudget ==
    (\E p \in DOMAIN exec : exec[p].req # "none") =>
        usage <= config.dailyLimit - config.reserveBuffer

\* what a reader of the cache sees at the time t
VisibleKeys(mc, t) == {k \in DOMAIN mc : CacheGetValue(mc, k, t) # Null}

\* an upstream request of p's running execution has failed
UpstreamFailed(p) == exec[p].failed \/ exec[p].pc = "fallback"

\* C12 (content tools): once an upstream request of an execution has failed,
\* no later step of that execution changes usedUnits or what the cache holds.
C12_FailedUpstreamLeavesLedgerAndCache ==
    [][\A p \in DOMAIN exec :
          (UpstreamFailed(p) /\ exec'[p] # exec[p]) =>
              /\ usage' = usage
              /\ VisibleKeys(memoryCache', now') = VisibleKeys(memoryCache, now)
              /\ \A k \in VisibleKeys(memoryCache, now) :
                     CacheGetValue(memoryCache', k, now') =
                         CacheGetValue(memoryCache, k, now)]_vars

\* C16: when canPerformOperation denies a query that missed the cache while a
\* valid cached result usable for it exists, the tool does not raise the quota
\* error (it returns the cached result marked as degraded).
C16_DeniedQueryDegradesToCache ==
    [][\A p \in DOMAIN exec :
          LET e == exec[p]
              r == ReqTable[e.req]
          IN  (/\ e.pc = "cacheChecked"
               /\ exec'[p] # e
               /\ ~e.hit
               /\ ~canPerformOperation(config, usage, ToolCost(r))
               /\ FallbackRun(memoryCache, FallbackKeysOf[e.req], now).hit)
              => exec'[p].out # "quota_denied"]_vars

(* two callers whose executions interleave at every await *)
ConcCallers == {"a", "b"}
\* requests whose recorded cost is exactly the cost that was checked
ConcRequests == {"search", "channelsNoStats", "trending"}

\* the steps those requests take (none of them has a second recordUsage)
ConcStep(p) ==
    \/ ToolAdmit(p)
    \/ ToolNet1(p)
    \/ ToolNet2(p)
    \/ ToolRecord(p)
    \/ ToolStore(p)
    \/ ToolFallback(p)

NextToolsConc ==
    \/ \E p \in ConcCallers, r \in ConcRequests : ToolStart(p, r)
    \/ \E p \in ConcCallers : ConcStep(p)
    \/ LedgerLoadQuota
    \/ ToolsReset

SpecToolsConc == InitToolsSpec(ConcCallers) /\ [][NextToolsConc]_vars

\* C2: admission and recording act as one step: whenever an execution records
\* its cost, the admission answer it obtained is still true of usedUnits at
\* that moment, so the recording leaves usedUnits within
\* dailyLimit - reserveBuffer.
C2_AdmitAndRecordSerialized ==
    [][\A p \in DOMAIN exec :
          (exec[p].pc = "record" /\ exec'[p].pc # "record") =>
              /\ canPerformOperation(config, usage, ToolCost(ReqTable[exec[p].req]))
              /\ usage' <= config.dailyLimit - config.reserveBuffer]_vars

-----------------------------------------------------------------------------
(* RobustLLMService: generateWithFallback over the configured providers *)

\* "{\"prompt\":\""
JsOpenPrompt == <<123, 34, 112, 114, 111, 109, 112, 116, 34, 58, 34>>
\* "\""
JsQuote == <<34>>
\* ",\"model\":\""
JsModel == <<44, 34, 109, 111, 100, 101, 108, 34, 58, 34>>
\* ",\"maxTokens\":"
JsMaxTokens == <<44, 34, 109, 97, 120, 84, 111, 107, 101, 110, 115, 34, 58>>
\* ",\"temperature\":"
JsTemperature == <<44, 34, 116, 101, 109, 112, 101, 114, 97, 116, 117, 114, 101, 34, 58>>
\* ",\"responseFormat\":\""
JsResponseFormat == <<44, 34, 114, 101, 115, 112, 111, 110, 115, 101, 70, 111, 114, 109, 97, 116, 34, 58, 34>>
\* ",\"provider\":\""
JsProvider == <<44, 34, 112, 114, 111, 118, 105, 100, 101, 114, 34, 58, 34>>
\* "\"}"
JsClose == <<34, 125>>
\* "openai"
NameOpenai == <<111, 112, 101, 110, 97, 105>>
\* "anthropic"
NameAnthropic == <<97, 110, 116, 104, 114, 111, 112, 105, 99>>
\* "Summarize the video transcript"
PromptLong == <<83, 117, 109, 109, 97, 114, 105, 122, 101, 32, 116, 104, 101, 32, 118, 105, 100, 101, 111, 32, 116, 114, 97, 110, 115, 99, 114, 105, 112, 116>>
\* "hi"
PromptShort == <<104, 105>>
\* "gpt-4o"
ModelGpt4o == <<103, 112, 116, 45, 52, 111>>
\* "json"
FormatJson == <<106, 115, 111, 110>>

\* a transcript-sized prompt: 24000 letters "a"
PromptHuge == [k \in 1..24000 |-> 97]

\* Number.prototype.toString of a non-negative integer, as JSON.stringify writes it
RECURSIVE Digits(_)
Digits(n) == IF n < 10 THEN <<48 + n>> ELSE Digits(n \div 10) \o <<48 + (n % 10)>>

\* an omitted optional field (undefined): JSON.stringify leaves it out
Undef == -1
NoStr == << >>

\* LLMRequest
LLMRequest(prompt, model, maxTokens, temperature, responseFormat) ==
    [prompt |-> prompt, model |-> model, maxTokens |-> maxTokens,
     temperature |-> temperature, responseFormat |-> responseFormat]

\* the requests issued: a prompt alone, the same prompt with every option set,
\* and a two-letter prompt
GenReqTable ==
    [long     |-> LLMRequest(PromptLong, NoStr, Undef, Undef, NoStr),
     longOpts |-> LLMRequest(PromptLong, ModelGpt4o, 500, 0, FormatJson),
     short    |-> LLMRequest(PromptShort, NoStr, Undef, Undef, NoStr),
     huge     |-> LLMRequest(PromptHuge, NoStr, Undef, Undef, NoStr)]

GenRequests == {"long", "longOpts", "short"}

ProviderBytes == [openai |-> NameOpenai, anthropic |-> NameAnthropic]

\* JSON.stringify({prompt, model, maxTokens, temperature, responseFormat, provider})
JsonKey(r, provider) ==
    JsOpenPrompt \o r.prompt \o JsQuote
      \o (IF r.model = NoStr THEN << >> ELSE JsModel \o r.model \o JsQuote)
      \o (IF r.maxTokens = Undef THEN << >> ELSE JsMaxTokens \o Digits(r.maxTokens))
      \o (IF r.temperature = Undef THEN << >> ELSE JsTemperature \o Digits(r.temperature))
      \o (IF r.responseFormat = NoStr THEN << >>
          ELSE JsResponseFormat \o r.responseFormat \o JsQuote)
      \o JsProvider \o ProviderBytes[provider] \o JsClose

\* createCacheKey(request, provider)
createCacheKey(r, provider) ==
    PrefixLlm \o Slice0(Base64(JsonKey(r, provider)), 50)

LlmKeyOf ==
    [name \in DOMAIN GenReqTable |->
        [provider \in ProviderNames |-> createCacheKey(GenReqTable[name], provider)]]

\* estimateTokens(text): the tokenizer is outside these sources; its count is
\* taken to be the estimate the method itself falls back to
estimateTokens(text) == (Len(text) + 3) \div 4

\* initializeProviders(): priority and limits per provider
ProviderTable ==
    [openai    |-> [priority |-> 1, rpm |-> 3500, tpm |-> 200000],
     anthropic |-> [priority |-> 2, rpm |-> 2000, tpm |-> 150000]]

\* a comparator written the other way round
RECURSIVE ByPriority_Descending(_)
ByPriority_Descending(names) ==
    IF names = {} THEN << >>
    ELSE LET first == CHOOSE a \in names :
                        \A b \in names : ProviderTable[a].priority >= ProviderTable[b].priority
         IN  <<first>> \o ByPriority_Descending(names \ {first})

\* this.providers.sort((a, b) => a.priority - b.priority), as a list of names
RECURSIVE ByPriority(_)
ByPriority(names) ==
    IF names = {} THEN << >>
    ELSE LET first == CHOOSE a \in names :
                        \A b \in names : ProviderTable[a].priority <= ProviderTable[b].priority
         IN  <<first>> \o ByPriority(names \ {first})

\* canUseProvider(provider, estimatedTokens)
canUseProvider(cur, name, estimatedTokens) ==
    /\ cur.tokens + estimatedTokens <= ProviderTable[name].tpm
    /\ cur.requests < ProviderTable[name].rpm

UserDailyLimit == 50000
UserHourlyLimit == 10000
NoUsage == [daily |-> 0, hourly |-> 0]

\* this.userQuotas.get(userId) || { daily: 0, hourly: 0 }
UserUsage(uq, userId) == IF userId \in DOMAIN uq THEN uq[userId] ELSE NoUsage

\* a guard that forgets the daily ceiling
checkUserQuota_NoDaily(uq, userId, estimatedTokens) ==
    IF UserUsage(uq, userId).hourly + estimatedTokens > UserHourlyLimit
    THEN "User hourly quota exceeded"
    ELSE ""

\* checkUserQuota(userId, estimatedTokens): the message thrown, "" when it passes
checkUserQuota(uq, userId, estimatedTokens) ==
    IF UserUsage(uq, userId).daily + estimatedTokens > UserDailyLimit
    THEN "User daily quota exceeded"
    ELSE IF UserUsage(uq, userId).hourly + estimatedTokens > UserHourlyLimit
    THEN "User hourly quota exceeded"
    ELSE ""

\* a recordUsage that charges every configured provider
recordUsage_AllProviders(st, provider, tokensUsed, userId) ==
    [providers |-> [n \in DOMAIN st.providers |->
                      [tokens |-> st.providers[n].tokens + tokensUsed,
                       requests |-> st.providers[n].requests + 1]],
     userQuotas |-> MapWith(st.userQuotas, userId,
                      [daily |-> UserUsage(st.userQuotas, userId).daily + tokensUsed,
                       hourly |-> UserUsage(st.userQuotas, userId).hourly + tokensUsed])]

\* recordUsage(provider, tokensUsed, userId) on the pair of tables
recordUsage(st, provider, tokensUsed, userId) ==
    [providers |-> [st.providers EXCEPT ![provider] =
                      [tokens |-> @.tokens + tokensUsed, requests |-> @.requests + 1]],
     userQuotas |-> MapWith(st.userQuotas, userId,
                      [daily |-> UserUsage(st.userQuotas, userId).daily + tokensUsed,
                       hourly |-> UserUsage(st.userQuotas, userId).hourly + tokensUsed])]

\* an error a provider SDK throws; 0 and "" are absent properties
ApiError(status, code, type) == [status |-> status, code |-> code, type |-> type]

\* isNonRetryableError(error)
isNonRetryableError(error) ==
    \/ error.status = 400
    \/ error.status = 401
    \/ error.status = 403
    \/ error.code = "context_length_exceeded"
    \/ error.type = "invalid_request_error"

RECURSIVE Pow2(_)
Pow2(n) == IF n = 0 THEN 1 ELSE 2 * Pow2(n - 1)

\* a backoff without its ceiling
exponentialBackoff_Uncapped(attempt) == 1000 * Pow2(attempt - 1)

\* exponentialBackoff(attempt): the delay in milliseconds
exponentialBackoff(attempt) == Min(1000 * Pow2(attempt - 1), 30000)

\* { content, tokensUsed, cost } as executeRequest returns it and the cache keeps
\* it; the content stands for which request it answers and who produced it
Answer(req, by, tokensUsed) ==
    [kind |-> "llm", content |-> [req |-> req, by |-> by], tokensUsed |-> tokensUsed]

\* what generateWithFallback returns: { ...response, provider, processingTime }
\* for a fresh answer, { ...cached, provider } for a cached one
LLMResponse(answer, provider, timed) ==
    [kind |-> "response", content |-> answer.content, tokensUsed |-> answer.tokensUsed,
     provider |-> provider, processingTime |-> timed]

\* an aggregate that carries the last failure alone
AggregateErrorOf_LastOnly(errors) ==
    [kind |-> "AggregateError",
     errors |-> [k \in 1..Min(1, Len(errors)) |-> errors[Len(errors)].error],
     message |-> [k \in 1..Min(1, Len(errors)) |-> errors[Len(errors)].provider]]

\* new AggregateError(errors.map(e => e.error), `... Tried: ${providers}`)
AggregateErrorOf(errors) ==
    [kind |-> "AggregateError",
     errors |-> [k \in 1..Len(errors) |-> errors[k].error],
     message |-> [k \in 1..Len(errors) |-> errors[k].provider]]

\* new Error(message) thrown by checkUserQuota
QuotaErrorOf(message) == [kind |-> "Error", message |-> message]

\* one activation of generateWithFallback; tried and waited are the providers
\* handed to executeRequest and the backoff slept, in this activation
IdleCall ==
    [pc |-> "idle", req |-> "none", i |-> 0, est |-> 0, errors |-> << >>,
     tried |-> << >>, waited |-> 0, out |-> "none", ret |-> Null]

Ended(e, out, ret) == [e EXCEPT !.pc = "idle", !.i = 0, !.out = out, !.ret = ret]

\* the loop's "continue": the first provider at or after position i that
\* canUseProvider accepts, Len(order) + 1 when there is none
RECURSIVE FirstUsable(_, _, _, _)
FirstUsable(order, i, ps, est) ==
    IF i > Len(order) THEN i
    ELSE IF canUseProvider(ps[order[i]], order[i], est) THEN i
    ELSE FirstUsable(order, i + 1, ps, est)

\* a loop that goes back to the first provider after a failure
LoopRun_Restart(p, e, i) ==
    LET order == ByPriority(DOMAIN providers)
        j     == FirstUsable(order, 1, providers, e.est)
    IN
    IF j > Len(order)
    THEN /\ gen' = [gen EXCEPT ![p] = Ended(e, "aggregate", AggregateErrorOf(e.errors))]
         /\ UNCHANGED memoryCache
    ELSE LET key    == LlmKeyOf[e.req][order[j]]
             cached == CacheGetValue(memoryCache, key, now)
         IN  /\ memoryCache' = CacheGetMap(memoryCache, key, now)
             /\ gen' = [gen EXCEPT ![p] =
                    IF cached # Null
                    THEN Ended(e, "cached", LLMResponse(cached, order[j], FALSE))
                    ELSE [e EXCEPT !.pc = "net", !.i = j,
                                   !.tried = Append(e.tried, order[j])]]

\* the for loop from position i up to its next suspension on a provider call:
\* skipped providers, the cache lookup under the provider's key, the cached
\* return, or the throw after the loop
LoopRun(p, e, i) ==
    LET order == ByPriority(DOMAIN providers)
        j     == FirstUsable(order, i, providers, e.est)
    IN
    IF j > Len(order)
    THEN /\ gen' = [gen EXCEPT ![p] = Ended(e, "aggregate", AggregateErrorOf(e.errors))]
         /\ UNCHANGED memoryCache
    ELSE LET key    == LlmKeyOf[e.req][order[j]]
             cached == CacheGetValue(memoryCache, key, now)
         IN  /\ memoryCache' = CacheGetMap(memoryCache, key, now)
             /\ gen' = [gen EXCEPT ![p] =
                    IF cached # Null
                    THEN Ended(e, "cached", LLMResponse(cached, order[j], FALSE))
                    ELSE [e EXCEPT !.pc = "net", !.i = j,
                                   !.tried = Append(e.tried, order[j])]]

\* generateWithFallback(request, userId) up to its first provider call
GenCall(p, r) ==
    LET est == estimateTokens(GenReqTable[r].prompt)
        msg == checkUserQuota(userQuotas, p, est)
        e   == [IdleCall EXCEPT !.req = r, !.est = est]
    IN
    /\ gen[p].pc = "idle"
    /\ IF msg # ""
       THEN /\ gen' = [gen EXCEPT ![p] = Ended(e, "user_quota", QuotaErrorOf(msg))]
            /\ UNCHANGED memoryCache
       ELSE LoopRun(p, e, 1)
    /\ UNCHANGED <<now, cacheRet, ledgerVars, toolVars, storeVars, providers, userQuotas>>

\* total_tokens a provider reports for one completion
CompletionTokens == 6000
TokensReported == {CompletionTokens}

\* errors a provider call raises: the five non-retryable kinds, a server error
\* and a rate-limit answer
ApiErrors ==
    {ApiError(400, "", ""), ApiError(401, "", ""), ApiError(403, "", ""),
     ApiError(0, "context_length_exceeded", ""), ApiError(0, "", "invalid_request_error"),
     ApiError(500, "", ""), ApiError(429, "", "")}

\* executeRequest settles: recordUsage, cache.set and the return, or the catch
\* block up to the backoff timer
GenNet(p) ==
    LET e    == gen[p]
        name == ByPriority(DOMAIN providers)[e.i]
    IN
    /\ e.pc = "net"
    /\ \/ \E t \in TokensReported :
            LET st == recordUsage([providers |-> providers, userQuotas |-> userQuotas],
                                  name, t, p)
            IN  /\ providers' = st.providers
                /\ userQuotas' = st.userQuotas
                /\ memoryCache' = CacheSetMap(memoryCache, LlmKeyOf[e.req][name],
                                              Answer(e.req, name, t), 3600, now)
                /\ gen' = [gen EXCEPT ![p] =
                       Ended(e, "fresh", LLMResponse(Answer(e.req, name, t), name, TRUE))]
       \/ \E err \in ApiErrors :
            LET errors == Append(e.errors, [provider |-> name, error |-> err])
                f      == [e EXCEPT !.errors = errors]
            IN  /\ gen' = [gen EXCEPT ![p] =
                       IF isNonRetryableError(err)
                       THEN Ended(f, "aggregate", AggregateErrorOf(errors))
                       ELSE [f EXCEPT !.pc = "backoff",
                                      !.waited = @ + exponentialBackoff(Len(errors))]]
                /\ UNCHANGED <<memoryCache, providers, userQuotas>>
    /\ UNCHANGED <<now, cacheRet, ledgerVars, toolVars, storeVars, issued>>

\* the backoff timer fires and the loop goes on with the next provider
GenBackoffEnd(p) ==
    /\ gen[p].pc = "backoff"
    /\ LoopRun(p, gen[p], gen[p].i + 1)
    /\ UNCHANGED <<now, cacheRet, ledgerVars, toolVars, storeVars, providers, userQuotas, issued>>

\* startResetTimer(): the hourly interval
BrokerHourlyReset ==
    /\ providers' = [n \in DOMAIN providers |-> [requests |-> 0, tokens |-> 0]]
    /\ userQuotas' = [u \in DOMAIN userQuotas |-> [userQuotas[u] EXCEPT !.hourly = 0]]
    /\ issued' = [u \in DOMAIN issued |-> 0]
    /\ UNCHANGED <<now, cacheVars, ledgerVars, toolVars, storeVars, gen>>

\* startResetTimer(): the daily interval
BrokerDailyReset ==
    /\ userQuotas' = [u \in DOMAIN userQuotas |-> [userQuotas[u] EXCEPT !.daily = 0]]
    /\ UNCHANGED <<now, cacheVars, ledgerVars, toolVars, storeVars, providers, gen, issued>>

\* the clock moves past the lifetime of a cached answer
BrokerTickMs == (3600 + 1) * 1000
MaxBrokerTicks == 1

BrokerTick ==
    /\ now < MaxBrokerTicks * BrokerTickMs
    /\ now' = now + BrokerTickMs
    /\ UNCHANGED <<cacheVars, ledgerVars, toolVars, storeVars, brokerVars, issued>>

GenCallers == {"default"}

\* currentUsage at the start of a window, and late in a window in which other
\* callers' traffic left room for one more completion
FreshWindow == [requests |-> 0, tokens |-> 0]
BusyWindow(name) ==
    [requests |-> 20, tokens |-> ProviderTable[name].tpm - CompletionTokens]

\* the service as constructed for each choice of provider keys in the
\* environment, met at the start of a window or late in one
InitBrokerSpec ==
    /\ InitClock /\ InitCache /\ InitLedger({DefaultConfig}) /\ InitTools
    /\ \E names \in SUBSET ProviderNames :
          \E busy \in SUBSET names :
              providers = [n \in names |->
                              IF n \in busy THEN BusyWindow(n) ELSE FreshWindow]
    /\ userQuotas = << >>
    /\ gen = [p \in GenCallers |-> IdleCall]
    /\ issued = [p \in GenCallers |-> 0]

NextBroker ==
    \/ \E p \in GenCallers, r \in GenRequests : GenCall(p, r) /\ UNCHANGED issued
    \/ \E p \in GenCallers : GenNet(p)
    \/ \E p \in GenCallers : GenBackoffEnd(p)
    \/ BrokerHourlyReset
    \/ BrokerDailyReset
    \/ BrokerTick

SpecBroker == InitBrokerSpec /\ [][NextBroker]_vars

\* C5: a cached answer returned for request R under provider P was stored for
\* that same request and produced by that same provider.
C5_HitIsForSameRequestAndProvider ==
    \A p \in DOMAIN gen :
        gen[p].out = "cached" =>
            gen[p].ret.content = [req |-> gen[p].req, by |-> gen[p].ret.provider]

\* a non-expired entry is stored under one of the request's keys
ValidEntryFor(r) ==
    \E n \in ProviderNames : CacheGetValue(memoryCache, LlmKeyOf[r][n], now) # Null

\* C6: a call that passes the caller's quota check while a valid cache entry
\* exists for its request returns that entry at once, whatever the providers'
\* limits and whichever providers are configured.
C6_ValidEntryIsReturnedAtOnce ==
    [][\A p \in DOMAIN gen :
          ( /\ gen[p].pc = "idle"
            /\ gen'[p] # gen[p]
            /\ checkUserQuota(userQuotas, p, gen'[p].est) = ""
            /\ ValidEntryFor(gen'[p].req) ) =>
              gen'[p].out = "cached"]_vars

Priority(name) == ProviderTable[name].priority

\* C7: within one call the providers handed to executeRequest are in strictly
\* ascending priority, one at a time, each failure belonging to its attempt;
\* the provider chosen next is the first usable one after the last attempt; a
\* fresh result is the last attempted provider's own answer after transient
\* failures only, and it records one request on that provider and none on the
\* providers that failed. With openai failing once and anthropic answering,
\* the result is anthropic's, with one failure listed, for openai.
C7_AttemptsInPriorityOrder ==
    /\ [](\A p \in DOMAIN gen :
            LET e == gen[p] IN
            /\ \A k \in 1..(Len(e.tried) - 1) : Priority(e.tried[k]) < Priority(e.tried[k + 1])
            /\ Len(e.errors) = IF e.pc = "net" THEN Len(e.tried) - 1 ELSE
                               IF e.out = "fresh" THEN Len(e.tried) - 1 ELSE Len(e.tried)
            /\ \A k \in 1..Len(e.errors) : e.errors[k].provider = e.tried[k]
            /\ e.out = "fresh" =>
                 /\ e.ret.provider = e.tried[Len(e.tried)]
                 /\ e.ret.content = [req |-> e.req, by |-> e.ret.provider]
                 /\ \A k \in 1..Len(e.errors) : ~isNonRetryableError(e.errors[k].error)
            /\ (e.out = "fresh" /\ e.errors # << >> /\ e.errors[1].provider = "openai") =>
                 /\ e.ret.provider = "anthropic"
                 /\ Len(e.errors) = 1)
    /\ [][\A p \in DOMAIN gen :
            LET order == ByPriority(DOMAIN providers)
                from  == IF gen[p].pc = "backoff" THEN gen[p].i + 1 ELSE 1
            IN
            /\ (gen[p].pc # "net" /\ gen'[p].pc = "net") =>
                 /\ canUseProvider(providers[order[gen'[p].i]], order[gen'[p].i], gen'[p].est)
                 /\ \A k \in from..(gen'[p].i - 1) :
                        ~canUseProvider(providers[order[k]], order[k], gen'[p].est)
                 /\ gen'[p].tried[Len(gen'[p].tried)] = order[gen'[p].i]
            /\ (gen[p].pc = "net" /\ gen'[p].out = "fresh") =>
                 /\ providers'[gen'[p].ret.provider].requests =
                        providers[gen'[p].ret.provider].requests + 1
                 /\ \A k \in 1..Len(gen'[p].errors) :
                        providers'[gen'[p].errors[k].provider] =
                            providers[gen'[p].errors[k].provider]]_vars

C7_Witness ==
    \E p \in DOMAIN gen :
        /\ gen[p].out = "fresh"
        /\ gen[p].tried = <<"openai", "anthropic">>
        /\ Len(gen[p].errors) = 1
        /\ gen[p].errors[1].provider = "openai"
        /\ gen[p].ret.provider = "anthropic"
        /\ providers["anthropic"].requests = 1
        /\ providers["openai"].requests = 0

\* C8: the step in which a provider's answer is accepted adds one request and
\* the reported tokens to that provider's window and the reported tokens to the
\* caller's hourly and daily counters, and changes no other provider; every
\* other step of a call leaves all the counters alone.
C8_OnlyServingProviderCharged ==
    [][\A p \in DOMAIN gen :
          gen'[p] # gen[p] =>
              IF gen[p].pc = "net" /\ gen'[p].out = "fresh"
              THEN LET s == gen'[p].ret.provider
                       t == gen'[p].ret.tokensUsed
                   IN  /\ t \in TokensReported
                       /\ providers'[s].requests = providers[s].requests + 1
                       /\ providers'[s].tokens = providers[s].tokens + t
                       /\ \A o \in DOMAIN providers \ {s} : providers'[o] = providers[o]
                       /\ DOMAIN providers' = DOMAIN providers
                       /\ userQuotas'[p].hourly = UserUsage(userQuotas, p).hourly + t
                       /\ userQuotas'[p].daily = UserUsage(userQuotas, p).daily + t
              ELSE providers' = providers /\ userQuotas' = userQuotas]_vars

C8_Witness ==
    \E p \in DOMAIN gen :
        /\ gen[p].out = "fresh"
        /\ gen[p].errors # << >>
        /\ gen[p].ret.tokensUsed # gen[p].est
        /\ providers[gen[p].ret.provider] = [requests |-> 1, tokens |-> gen[p].ret.tokensUsed]
        /\ providers[gen[p].errors[1].provider] = FreshWindow
        /\ userQuotas[p] = [daily |-> gen[p].ret.tokensUsed, hourly |-> gen[p].ret.tokensUsed]

\* C9: when the first provider's error is non-retryable, the call raises that
\* error, no other provider is handed the request, and no backoff is slept.
C9_FatalErrorIsRaised ==
    \A p \in DOMAIN gen :
        (gen[p].errors # << >> /\ isNonRetryableError(gen[p].errors[1].error)) =>
            /\ gen[p].pc = "idle"
            /\ gen[p].tried = <<gen[p].errors[1].provider>>
            /\ gen[p].waited = 0
            /\ gen[p].ret = gen[p].errors[1].error

\* C10: a call that ends with no answer raises an AggregateError that lists, in
\* order, each provider handed the request with the error it raised; the
\* providers that were skipped are not listed; no response is returned.
C10_AggregateListsEveryAttempt ==
    \A p \in DOMAIN gen :
        LET e == gen[p] IN
        /\ (e.pc = "idle" /\ e.out = "aggregate") =>
             /\ e.ret.kind = "AggregateError"
             /\ Len(e.ret.errors) = Len(e.tried)
             /\ Len(e.ret.message) = Len(e.tried)
             /\ \A k \in 1..Len(e.tried) :
                    /\ e.ret.message[k] = e.tried[k]
                    /\ e.ret.errors[k] = e.errors[k].error
                    /\ e.errors[k].provider = e.tried[k]
        /\ (e.pc = "idle" /\ e.out \notin {"none", "fresh", "cached"}) =>
             e.ret.kind \in {"AggregateError", "Error"}
        /\ (e.pc = "idle" /\ e.out \in {"fresh", "cached"}) => e.ret.kind = "response"

C10_Witness ==
    \E p \in DOMAIN gen :
        /\ gen[p].pc = "idle"
        /\ gen[p].out = "aggregate"
        /\ gen[p].tried = <<"openai", "anthropic">>
        /\ Len(gen[p].ret.errors) = 2
        /\ gen[p].ret.message = <<"openai", "anthropic">>

-----------------------------------------------------------------------------
(* The per-caller guard under transcript-sized prompts *)

GuardRequests == {"huge"}

\* a call, with its estimate added to what the caller has issued this window
\* (kept up to the first value past the hourly ceiling)
GuardCall(p, r) ==
    /\ GenCall(p, r)
    /\ issued' = [issued EXCEPT ![p] =
           Min(@ + estimateTokens(GenReqTable[r].prompt), UserHourlyLimit + 1)]

\* the service met fresh, or late in a day in which the caller's served
\* requests left room for one more completion
InitGuardSpec ==
    /\ InitClock /\ InitCache /\ InitLedger({DefaultConfig}) /\ InitTools
    /\ \E names \in SUBSET ProviderNames :
          providers = [n \in names |-> FreshWindow]
    /\ \/ userQuotas = << >>
       \/ userQuotas = [p \in GenCallers |->
                           [daily |-> UserDailyLimit - CompletionTokens, hourly |-> 0]]
    /\ gen = [p \in GenCallers |-> IdleCall]
    /\ issued = [p \in GenCallers |-> 0]

NextGuard ==
    \/ \E p \in GenCallers, r \in GuardRequests : GuardCall(p, r)
    \/ \E p \in GenCallers : GenNet(p)
    \/ \E p \in GenCallers : GenBackoffEnd(p)
    \/ BrokerHourlyReset
    \/ BrokerDailyReset
    \/ BrokerTick

SpecGuard == InitGuardSpec /\ [][NextGuard]_vars

\* a step that is the start of a call by p
CallStarts(p) == gen[p].pc = "idle" /\ (gen'[p] # gen[p] \/ issued'[p] > issued[p])

\* the denial: a caller-quota error, no provider handed the request, and
\* no counter and no cache entry changed
DeniedUntouched(p) ==
    /\ gen'[p].pc = "idle"
    /\ gen'[p].out = "user_quota"
    /\ gen'[p].ret.kind = "Error"
    /\ gen'[p].tried = << >>
    /\ memoryCache' = memoryCache
    /\ providers' = providers
    /\ userQuotas' = userQuotas

\* C11 (as stated): a call made once the estimates of the calls issued in the
\* current hour add up to more than the hourly ceiling is denied untouched.
C11_DeniedOnceEstimatesExceed ==
    [][\A p \in DOMAIN gen :
          (CallStarts(p) /\ issued[p] > UserHourlyLimit) => DeniedUntouched(p)]_vars

\* C11 (amended): a call is denied untouched exactly when the caller's hourly
\* counter plus the call's estimate exceeds 10000 or the daily counter plus
\* the estimate exceeds 50000, the counters holding the tokens the providers
\* reported for the caller's served calls; any other call is not denied.
C11_DeniedIffCounterPlusEstimateExceeds ==
    [][\A p \in DOMAIN gen :
          CallStarts(p) =>
              IF \/ UserUsage(userQuotas, p).hourly + gen'[p].est > UserHourlyLimit
                 \/ UserUsage(userQuotas, p).daily + gen'[p].est > UserDailyLimit
              THEN DeniedUntouched(p)
              ELSE gen'[p].out # "user_quota"]_vars

C11_Witness ==
    \E p \in DOMAIN gen :
        /\ gen[p].pc = "idle"
        /\ gen[p].out = "user_quota"
        /\ gen[p].ret = QuotaErrorOf("User daily quota exceeded")
        /\ userQuotas[p].hourly = 0
        /\ userQuotas[p].daily + gen[p].est > UserDailyLimit
        /\ gen[p].tried = << >>

-----------------------------------------------------------------------------
(* CacheManager over Redis: the branch taken once a 'connect' event has set *)
(* useRedis, with commands that the server may reject                       *)

\* how an awaited Redis command settles
RedisOutcomes == {"ok", "rejected"}

\* redis.get(key): the entry written by setex, until its seconds run out
RedisGet(rs, key, t) ==
    IF key \in DOMAIN rs /\ t - rs[key].timestamp < rs[key].ttl * 1000
    THEN rs[key] ELSE Null

\* the try block of get/set/del/clear: what it returns or that it throws, and
\* the two stores it leaves
TryBlock(op, key, data, ttl, o) ==
    LET same == [thrown |-> FALSE, value |-> Null,
                 mem |-> memoryCache, redis |-> redisStore]
        entry == [data |-> data, timestamp |-> now,
                  ttl |-> IF ttl # 0 THEN ttl ELSE getDefaultTTL(key)]
        cached == RedisGet(redisStore, key, now)
    IN  IF useRedis
        THEN IF o = "rejected" THEN [same EXCEPT !.thrown = TRUE]
             ELSE CASE op = "get" ->
                         IF cached = Null THEN same
                         ELSE IF isExpired(cached, now)
                              THEN [same EXCEPT !.redis = MapWithout(redisStore, key)]
                              ELSE [same EXCEPT !.value = cached.data]
                    [] op = "set" -> [same EXCEPT !.redis = MapWith(redisStore, key, entry)]
                    [] op = "del" -> [same EXCEPT !.redis = MapWithout(redisStore, key)]
                    [] op = "clear" -> [same EXCEPT !.redis = << >>]
        ELSE CASE op = "get" ->
                    [same EXCEPT !.value = CacheGetValue(memoryCache, key, now),
                                 !.mem = CacheGetMap(memoryCache, key, now)]
               [] op = "set" ->
                    [same EXCEPT !.mem = CacheSetMap(memoryCache, key, data, ttl, now)]
               [] op = "del" -> [same EXCEPT !.mem = CacheDelMap(memoryCache, key)]
               [] op = "clear" -> [same EXCEPT !.mem = CacheClearMap]

\* a method that lets the error of its try block out
Caught_Rethrown(body) ==
    [raised |-> body.thrown, value |-> body.value]

\* catch (error) { logger.error(...); return null }
Caught(body) ==
    [raised |-> FALSE, value |-> IF body.thrown THEN Null ELSE body.value]

StoreKeys == {QuotaKey, KeyPlain}
StoreOps == {"get", "set", "del", "clear"}
StoreCost == 2500

\* a direct call of get, set, del or clear
StoreCall ==
    \E op \in StoreOps, k \in StoreKeys, o \in RedisOutcomes :
        LET body == TryBlock(op, k, Payload(1), 0, o)
            res == Caught(body)
        IN  /\ o = "rejected" => useRedis
            /\ op = "set" => k # QuotaKey
            /\ memoryCache' = body.mem
            /\ redisStore' = body.redis
            /\ cacheRet' = [op |-> op, key |-> k, failed |-> body.thrown,
                            raised |-> res.raised, value |-> res.value, cost |-> 0]
            /\ UNCHANGED <<now, ledgerVars, toolVars, brokerVars, guardVars, useRedis>>

\* recordUsage(cost, operation) after an admission check that passed
StoreRecordUsage ==
    \E o \in RedisOutcomes :
        LET body == TryBlock("set", QuotaKey, Num(usage + StoreCost), QuotaTtl, o)
            res == Caught(body)
        IN  /\ o = "rejected" => useRedis
            /\ canPerformOperation(config, usage, StoreCost)
            /\ usage' = usage + StoreCost
            /\ memoryCache' = body.mem
            /\ redisStore' = body.redis
            /\ cacheRet' = [op |-> "recordUsage", key |-> QuotaKey, failed |-> body.thrown,
                            raised |-> res.raised, value |-> Null, cost |-> StoreCost]
            /\ UNCHANGED <<now, config, resetTime, hydrate, toolVars, brokerVars, guardVars, useRedis>>

\* new QuotaManager(config, logger, cache): loadQuotaFromCache() issues its read
StoreConstruct ==
    \E o \in RedisOutcomes :
        LET body == TryBlock("get", QuotaKey, Null, 0, o)
            res == Caught(body)
        IN  /\ o = "rejected" => useRedis
            /\ ~hydrate.pending
            /\ usage' = 0
            /\ resetTime' = getNextResetTime(now)
            /\ hydrate' = [pending |-> TRUE, value |-> res.value]
            /\ memoryCache' = body.mem
            /\ redisStore' = body.redis
            /\ cacheRet' = [op |-> "construct", key |-> QuotaKey, failed |-> body.thrown,
                            raised |-> res.raised, value |-> res.value, cost |-> 0]
            /\ UNCHANGED <<now, config, toolVars, brokerVars, guardVars, useRedis>>

\* the continuation of loadQuotaFromCache()
StoreLoadQuota ==
    /\ hydrate.pending
    /\ usage' = loadQuotaFromCache(hydrate.value, usage)
    /\ hydrate' = HydrateDone
    /\ cacheRet' = [op |-> "hydrated", key |-> QuotaKey, failed |-> FALSE,
                    raised |-> FALSE, value |-> hydrate.value, cost |-> 0]
    /\ UNCHANGED <<now, memoryCache, redisStore, config, resetTime, toolVars, brokerVars,
                   guardVars, useRedis>>

\* redis.on('connect', ...)
StoreConnect ==
    /\ ~useRedis
    /\ useRedis' = TRUE
    /\ cacheRet' = [op |-> "event"]
    /\ UNCHANGED <<now, memoryCache, redisStore, ledgerVars, toolVars, brokerVars, guardVars>>

\* redis.on('error', ...)
StoreError ==
    /\ useRedis
    /\ useRedis' = FALSE
    /\ cacheRet' = [op |-> "event"]
    /\ UNCHANGED <<now, memoryCache, redisStore, ledgerVars, toolVars, brokerVars, guardVars>>

InitStoreSpec ==
    InitClock /\ InitCache /\ InitLedger({DefaultConfig}) /\ InitTools /\ InitBroker

NextStore ==
    \/ StoreCall
    \/ StoreRecordUsage
    \/ StoreConstruct
    \/ StoreLoadQuota
    \/ StoreConnect
    \/ StoreError

SpecStore == InitStoreSpec /\ [][NextStore]_vars

\* C17: no call of get, set, del, clear or recordUsage raises; when the store
\* rejects the command, get returns null, and recordUsage has still added the
\* cost to usedUnits.
C17_StoreFailureNeverSurfaces ==
    [][cacheRet'.op \in StoreOps \cup {"recordUsage"} =>
          /\ ~cacheRet'.raised
          /\ (cacheRet'.op = "get" /\ cacheRet'.failed) => cacheRet'.value = Null
          /\ cacheRet'.op = "recordUsage" => usage' = usage + cacheRet'.cost
          /\ cacheRet'.op # "recordUsage" => usage' = usage]_vars

\* Redis rejected the setex of recordUsage: the cost is counted, nothing persisted
C17_Witness ==
    /\ cacheRet.op = "recordUsage"
    /\ cacheRet.failed
    /\ ~cacheRet.raised
    /\ usage = StoreCost
    /\ useRedis
    /\ QuotaKey \notin DOMAIN redisStore

\* the total a read of 'quota:daily_usage' finds in the store in use
HeldTotal ==
    IF useRedis
    THEN IF RedisGet(redisStore, QuotaKey, now) = Null THEN Null
         ELSE RedisGet(redisStore, QuotaKey, now).data
    ELSE CacheGetValue(memoryCache, QuotaKey, now)

\* C18: a recordUsage the store accepts leaves the new total persisted; a
\* construction never raises and starts at 0; a hydration that read a total T
\* leaves usedUnits = T, and one that follows the construction at once leaves
\* T, or 0 when the store held nothing or the read failed.
C18_PersistedTotalIsRestored ==
    [][/\ (cacheRet'.op = "recordUsage" /\ ~cacheRet'.failed) =>
              HeldTotal' = Num(usage')
       /\ cacheRet'.op = "construct" =>
              /\ ~cacheRet'.raised
              /\ usage' = 0
              /\ hydrate'.value = (IF cacheRet'.failed THEN Null ELSE HeldTotal)
       /\ cacheRet'.op = "hydrated" =>
              /\ hydrate.value # Null => usage' = hydrate.value.v
              /\ cacheRet.op = "construct" =>
                     usage' = (IF cacheRet.value # Null THEN cacheRet.value.v ELSE 0)]_vars

\* a new ledger took up the total its predecessor had persisted
C18_Witness ==
    /\ cacheRet.op = "hydrated"
    /\ cacheRet.value # Null
    /\ usage = cacheRet.value.v
    /\ usage >= StoreCost
    /\ HeldTotal = Num(usage)

\* the read failed: the new ledger stays at 0 although a total is stored
C18_WitnessReadFailed ==
    /\ cacheRet.op = "hydrated"
    /\ cacheRet.value = Null
    /\ usage = 0
    /\ HeldTotal # Null

-----------------------------------------------------------------------------
(* The ledger's queries, asked at every level of usage *)

\* costs recorded to move usedUnits across the thresholds of the default
\* configuration (80% of 8000, and the 7000 left by the reserve)
AdmitRecorded == {6400, 500, 97}
\* costs asked of canPerformOperation
AdmitAsked == {50, 100, 150}
Operations == {"search", "channel_search", "video_details", "channel_details", "trending"}
RequestedItems == {1, 10, 50}

\* recordUsage(cost, operation)
AdmitRecordUsage ==
    \E cost \in AdmitRecorded :
        /\ usage + cost <= config.dailyLimit
        /\ RecordUsage(cost)
        /\ cacheRet' = [op |-> "recordUsage", cost |-> cost]
        /\ UNCHANGED <<now, config, resetTime, hydrate, toolVars, brokerVars, guardVars, storeVars>>

\* canPerformOperation(cost)
AdmitCanPerform ==
    \E cost \in AdmitAsked :
        /\ cacheRet' = [op |-> "canPerformOperation", cost |-> cost,
                        value |-> canPerformOperation(config, usage, cost)]
        /\ UNCHANGED <<now, memoryCache, ledgerVars, toolVars, brokerVars, guardVars,
                       storeVars>>

\* optimizeOperation(operation, requestedItems)
AdmitOptimize ==
    \E operation \in Operations, requestedItems \in RequestedItems :
        /\ cacheRet' = [op |-> "optimizeOperation", operation |-> operation,
                        requestedItems |-> requestedItems,
                        value |-> optimizeOperation(config, usage, operation,
                                                    requestedItems)]
        /\ UNCHANGED <<now, memoryCache, ledgerVars, toolVars, brokerVars, guardVars,
                       storeVars>>

InitAdmitSpec ==
    InitClock /\ InitCache /\ InitLedger({DefaultConfig}) /\ InitTools /\ InitBroker

NextAdmit ==
    \/ AdmitRecordUsage
    \/ AdmitCanPerform
    \/ AdmitOptimize

SpecAdmit == InitAdmitSpec /\ [][NextAdmit]_vars

\* C19: canPerformOperation(cost) answers true exactly when usedUnits + cost is
\* at most dailyLimit - reserveBuffer, and changes nothing; at usedUnits = 6900
\* of the default 8000/1000 it answers true for 50 and false for 150.
C19_AdmitIffWithinBudget ==
    [][cacheRet'.op = "canPerformOperation" =>
          /\ cacheRet'.value =
                 (usage + cacheRet'.cost <= config.dailyLimit - config.reserveBuffer)
          /\ (usage = 6900 /\ config.dailyLimit = 8000 /\ config.reserveBuffer = 1000) =>
                 /\ cacheRet'.cost = 50 => cacheRet'.value
                 /\ cacheRet'.cost = 150 => ~cacheRet'.value
          /\ UNCHANGED <<usage, config, resetTime, hydrate, memoryCache, now>>]_vars

\* after recordUsage(6900) the ledger refuses 150
C19_Witness ==
    /\ cacheRet = [op |-> "canPerformOperation", cost |-> 150, value |-> FALSE]
    /\ usage = 6900
    /\ memoryCache[QuotaKey].data = Num(6900)

\* and admits 50
C19_WitnessAdmitted ==
    /\ cacheRet = [op |-> "canPerformOperation", cost |-> 50, value |-> TRUE]
    /\ usage = 6900

\* C20: optimizeOperation returns 0 when the unit cost of the kind exceeds
\* max(0, dailyLimit - reserveBuffer - usedUnits); otherwise
\* min(requested, floor(available / unit cost)) for video_details and
\* channel_details, and for search and channel_search min(requested, 5) once
\* usedUnits is above 80% of dailyLimit and requested otherwise; never more
\* than requested.
C20_OptimizeCapsRequest ==
    [][cacheRet'.op = "optimizeOperation" =>
          LET kind == cacheRet'.operation
              requested == cacheRet'.requestedItems
              ret == cacheRet'.value
              unit == IF kind \in {"search", "channel_search"} THEN 100 ELSE 1
              left == config.dailyLimit - config.reserveBuffer - usage
              available == IF left > 0 THEN left ELSE 0
          IN  /\ unit > available => ret = 0
              /\ (unit <= available /\ kind \in {"video_details", "channel_details"}) =>
                     ret = Min(requested, available \div unit)
              /\ (unit <= available /\ kind \in {"search", "channel_search"}) =>
                     ret = (IF usage * 100 > 80 * config.dailyLimit
                            THEN Min(requested, 5) ELSE requested)
              /\ ret <= requested
              /\ UNCHANGED <<usage, config, resetTime, hydrate, memoryCache, now>>]_vars

\* above 80% of the budget a search for 50 results is cut to 5
C20_Witness ==
    /\ cacheRet.op = "optimizeOperation"
    /\ cacheRet.operation = "search"
    /\ cacheRet.requestedItems = 50
    /\ cacheRet.value = 5
    /\ usage = 6900

\* with 3 units left, details for 10 videos are cut to 3
C20_WitnessPerItem ==
    /\ cacheRet.op = "optimizeOperation"
    /\ cacheRet.operation = "video_details"
    /\ cacheRet.requestedItems = 10
    /\ cacheRet.value = 3
    /\ usage = 6997

-----------------------------------------------------------------------------
(* YouTubeClient's own counter, driven through the client's interface *)

\* a report whose remaining forgets what was used
getQuotaUsage_Unspent(used, limit) ==
    [used |-> used, limit |-> limit, remaining |-> limit]

\* getQuotaUsage()
getQuotaUsage(used, limit) ==
    [used |-> used, limit |-> limit, remaining |-> limit - used]

\* the costs the client's methods check and then add: a search, a list call
ClientCosts == {100, 1}

\* a client method whose checkQuota(cost) passed and whose request answered
ClientSpend ==
    \E cost \in ClientCosts :
        /\ checkQuota(quotaUsed, cost, config.dailyLimit)
        /\ quotaUsed' = quotaUsed + cost
        /\ cacheRet' = [op |-> "request", cost |-> cost]
        /\ UNCHANGED <<now, memoryCache, ledgerVars, exec, brokerVars, guardVars, storeVars>>

ClientGetQuotaUsage ==
    /\ cacheRet' = [op |-> "getQuotaUsage",
                    value |-> getQuotaUsage(quotaUsed, config.dailyLimit)]
    /\ UNCHANGED <<now, memoryCache, ledgerVars, toolVars, brokerVars, guardVars, storeVars>>

\* resetQuota()
ClientResetQuota ==
    /\ quotaUsed' = 0
    /\ cacheRet' = [op |-> "resetQuota"]
    /\ UNCHANGED <<now, memoryCache, ledgerVars, exec, brokerVars, guardVars, storeVars>>

\* new YouTubeClient(apiKey, logger, config.quotaManagement.dailyLimit)
InitClientSpec ==
    /\ InitClock /\ InitCache /\ InitLedger({ToolConfig}) /\ InitBroker
    /\ quotaUsed = 0
    /\ exec = << >>

NextClient ==
    \/ ClientSpend
    \/ ClientGetQuotaUsage
    \/ ClientResetQuota

SpecClient == InitClientSpec /\ [][NextClient]_vars

\* C21: getQuotaUsage() reports the configured limit, what was used and
\* limit - used, which for a fresh client is 0 and the whole limit;
\* resetQuota() puts used back to 0, so that the report is again the fresh one.
C21_QuotaReport ==
    [][/\ cacheRet'.op = "getQuotaUsage" =>
              /\ cacheRet'.value.limit = config.dailyLimit
              /\ cacheRet'.value.used = quotaUsed
              /\ cacheRet'.value.remaining = config.dailyLimit - quotaUsed
              /\ quotaUsed = 0 =>
                     cacheRet'.value = [used |-> 0, limit |-> config.dailyLimit,
                                        remaining |-> config.dailyLimit]
              /\ quotaUsed' = quotaUsed
       /\ cacheRet'.op = "resetQuota" =>
              /\ quotaUsed' = 0
              /\ getQuotaUsage(quotaUsed', config'.dailyLimit) =
                     [used |-> 0, limit |-> config.dailyLimit,
                      remaining |-> config.dailyLimit]]_vars

\* a report taken after a search and a list call
C21_Witness ==
    /\ cacheRet.op = "getQuotaUsage"
    /\ cacheRet.value = [used |-> 101, limit |-> 300, remaining |-> 199]
    /\ quotaUsed = 101

-----------------------------------------------------------------------------
(* The backoff between provider attempts *)

MaxAttempt == 7

\* exponentialBackoff(attempt) called with each attempt number
BackoffDelay ==
    \E k \in 1..MaxAttempt :
        /\ cacheRet' = [op |-> "exponentialBackoff", attempt |-> k,
                        delay |-> exponentialBackoff(k)]
        /\ UNCHANGED <<now, memoryCache, ledgerVars, toolVars, brokerVars, guardVars,
                       storeVars>>

NextBackoff ==
    \/ \E p \in GenCallers, r \in GenRequests : GenCall(p, r) /\ UNCHANGED issued
    \/ \E p \in GenCallers : GenNet(p)
    \/ \E p \in GenCallers : GenBackoffEnd(p)
    \/ BackoffDelay

SpecBackoff == InitBrokerSpec /\ [][NextBackoff]_vars

\* the delays the claim lists
ListedDelay(k) ==
    IF k >= 6 THEN 30000 ELSE <<1000, 2000, 4000, 8000, 16000>>[k]

\* C22: the k-th error of a call, when retryable, is followed by a wait of
\* min(1000 * 2^(k-1), 30000) ms: 1000, 2000, 4000, 8000, 16000, then 30000
\* from k = 6 on; the delay never decreases with k and never exceeds 30000.
C22_BackoffDelay ==
    [][/\ \A p \in DOMAIN gen :
            (gen[p].pc = "net" /\ gen'[p].pc = "backoff") =>
                gen'[p].waited - gen[p].waited = ListedDelay(Len(gen'[p].errors))
       /\ cacheRet'.op = "exponentialBackoff" =>
            LET k == cacheRet'.attempt
                d == cacheRet'.delay
            IN  /\ d = ListedDelay(k)
                /\ d <= 30000
                /\ k > 1 => d >= exponentialBackoff(k - 1)]_vars

\* both providers failed with retryable errors: 1000 ms, then 2000 ms
C22_Witness ==
    \E p \in DOMAIN gen :
        /\ Len(gen[p].errors) = 2
        /\ ~isNonRetryableError(gen[p].errors[1].error)
        /\ ~isNonRetryableError(gen[p].errors[2].error)
        /\ gen[p].waited = 3000

\* the ceiling is reached at the sixth attempt
C22_WitnessCeiling ==
    cacheRet = [op |-> "exponentialBackoff", attempt |-> 6, delay |-> 30000]

\* C23: a call takes a backoff delay only when a further provider remains in
\* priority order to be checked or tried after it; none is taken after the
\* last provider has failed.
C23_BackoffOnlyBeforeFurtherProvider ==
    [][\A p \in DOMAIN gen :
          (gen[p].pc = "net" /\ gen'[p].pc = "backoff") =>
              gen[p].i < Len(ByPriority(DOMAIN providers))]_vars

-----------------------------------------------------------------------------
(* The sweep timer over entries that are written and not read again *)

\* set(key, data, ttl) of an entry nobody reads
SweepSet ==
    \E k \in CacheKeys, ttl \in TtlArgs :
        /\ memoryCache' = CacheSetMap(memoryCache, k, Payload(1), ttl, now)
        /\ cacheRet' = [op |-> "set", key |-> k, data |-> Payload(1), ttl |-> ttl]
        /\ UNCHANGED <<now, ledgerVars, toolVars, brokerVars, guardVars, storeVars>>

NextSweep ==
    \/ SweepSet
    \/ CacheSweep
    \/ CacheSmallTick
    \/ CacheBigTick

\* setInterval: the sweep keeps coming round
SpecSweep == InitCacheSpec /\ [][NextSweep]_vars /\ WF_vars(CacheSweep)

Expired(k) == k \in DOMAIN memoryCache /\ isExpired(memoryCache[k], now)

\* C24: a sweep removes exactly the entries expired at that moment, so that
\* none is stored right after it; and as the sweep recurs, an entry that has
\* expired and is not read is eventually gone (or replaced by a fresh one).
C24_SweepEvictsExpired ==
    /\ [][cacheRet'.op = "sweep" =>
             /\ DOMAIN memoryCache' = {k \in DOMAIN memoryCache : ~Expired(k)}
             /\ \A k \in DOMAIN memoryCache' : memoryCache'[k] = memoryCache[k]
             /\ \A k \in DOMAIN memoryCache' :
                    ~isExpired(memoryCache'[k], now')]_vars
    /\ \A k \in CacheKeys : Expired(k) ~> ~Expired(k)

\* a sweep has just removed an expired entry and kept a live one
C24_Witness ==
    /\ cacheRet.op = "sweep"
    /\ cacheRet.removed # {}
    /\ memoryCache # << >>
    /\ \A k \in DOMAIN memoryCache : ~isExpired(memoryCache[k], now)

-----------------------------------------------------------------------------
(* The ledger's reset timer, for a process started at any hour of the day *)

StartHours == 0..23
MaxScheduleDays == 3

\* the clock moves on, up to the moment the pending timer is due
ScheduleTick ==
    /\ now < resetTime
    /\ now < MaxScheduleDays * DayMs
    /\ now' = Min(now + HourMs, resetTime)
    /\ UNCHANGED <<cacheVars, ledgerVars, toolVars, brokerVars, guardVars, storeVars>>

\* the setTimeout callback of scheduleReset(): resetDailyQuota(), then
\* scheduleReset() arms the timer for the new resetTime
ScheduleFire ==
    /\ now = resetTime
    /\ ResetDailyQuota
    /\ UNCHANGED <<now, cacheRet, config, hydrate, toolVars, brokerVars, guardVars,
                   storeVars>>

\* recordUsage(cost, operation) after an admission check that passed
ScheduleRecord ==
    /\ canPerformOperation(config, usage, StoreCost)
    /\ RecordUsage(StoreCost)
    /\ UNCHANGED <<now, cacheRet, config, resetTime, hydrate, toolVars, brokerVars,
                   guardVars, storeVars>>

\* new QuotaManager(...) at the hour the process starts
InitScheduleSpec ==
    /\ now \in {h * HourMs : h \in StartHours}
    /\ InitCache /\ InitTools /\ InitBroker
    /\ config = DefaultConfig
    /\ usage = 0
    /\ hydrate = HydrateStart(<< >>, now)
    /\ resetTime = getNextResetTime(now)

NextSchedule ==
    \/ ScheduleTick
    \/ ScheduleFire
    \/ ScheduleRecord

SpecSchedule == InitScheduleSpec /\ [][NextSchedule]_vars

\* C25: resetTime, computed at construction and at every reset, is the next
\* 07:00 UTC strictly after the time it is computed at, at most 24 hours ahead.
C25_ResetAtNextDailyBoundary ==
    /\ 0 < resetTime - now /\ resetTime - now <= DayMs
    /\ [][resetTime' # resetTime =>
             /\ 0 < resetTime' - now'
             /\ resetTime' - now' <= DayMs
             /\ resetTime' % DayMs = 7 * HourMs]_vars

\* C26: an execution the ledger has admitted (canPerformOperation true and
\* optimizeOperation positive) is never stopped by the client's own
\* checkQuota: it goes on to its upstream call, and after a successful first
\* call the client's check for the second call passes as well.
C26_ClientAgreesWithLedger ==
    [][\A p \in DOMAIN exec :
          LET e == exec[p]
              r == ReqTable[e.req]
          IN  /\ (e.pc = "cacheChecked" /\ ~e.hit
                    /\ canPerformOperation(config, usage, ToolCost(r))
                    /\ exec'[p].out # "quota_denied")
                 => checkQuota(quotaUsed, ClientFirstCost(r), config.dailyLimit)
              /\ (e.pc = "net1" /\ quotaUsed' # quotaUsed /\ e.n = 0
                    /\ exec'[p].n > 0 /\ exec'[p].pc # "record")
                 => checkQuota(quotaUsed', 1, config.dailyLimit)]_vars

-----------------------------------------------------------------------------
(* A server over Redis that is stopped and started again: the stored       *)
(* counter outlives the process, the reset timer does not                  *)

\* hours the process stays down
DownHours == {2, 30}

\* the clock moves on while the process runs, up to the pending timer
RestartTick ==
    /\ ~hydrate.pending
    /\ now < resetTime
    /\ now < MaxScheduleDays * DayMs
    /\ now' = Min(now + HourMs, resetTime)
    /\ cacheRet' = [op |-> "tick"]
    /\ UNCHANGED <<memoryCache, ledgerVars, toolVars, brokerVars, guardVars, storeVars>>

\* the scheduleReset() timer fires: resetDailyQuota() with its cache.del
RestartFire ==
    \E o \in RedisOutcomes :
        LET body == TryBlock("del", QuotaKey, Null, 0, o) IN
        /\ now = resetTime
        /\ usage' = 0
        /\ resetTime' = getNextResetTime(now)
        /\ memoryCache' = body.mem
        /\ redisStore' = body.redis
        /\ cacheRet' = [op |-> "reset", failed |-> body.thrown]
        /\ UNCHANGED <<now, config, hydrate, toolVars, brokerVars, guardVars, useRedis>>

\* the process is stopped and, d hours later, started: the new process has an
\* empty memoryCache, and new QuotaManager(...) computes resetTime and issues
\* the read of loadQuotaFromCache()
Restart ==
    \E d \in DownHours, o \in RedisOutcomes :
        LET t == now + d * HourMs
            cached == RedisGet(redisStore, QuotaKey, t)
            value == IF o = "rejected" \/ cached = Null \/ isExpired(cached, t)
                     THEN Null ELSE cached.data
        IN  /\ ~hydrate.pending
            /\ now < MaxScheduleDays * DayMs
            /\ now' = t
            /\ memoryCache' = << >>
            /\ usage' = 0
            /\ resetTime' = getNextResetTime(t)
            /\ hydrate' = [pending |-> TRUE, value |-> value]
            /\ cacheRet' = [op |-> "construct", key |-> QuotaKey, failed |-> o = "rejected",
                            raised |-> FALSE, value |-> value, cost |-> 0]
            /\ UNCHANGED <<config, toolVars, brokerVars, guardVars, storeVars>>

\* a server started at 08:00 UTC with Redis connected and nothing stored
InitRestartSpec ==
    /\ now = 8 * HourMs
    /\ memoryCache = << >> /\ cacheRet = [op |-> "none"]
    /\ useRedis = TRUE /\ redisStore = << >>
    /\ config = DefaultConfig
    /\ usage = 0
    /\ hydrate = [pending |-> TRUE, value |-> Null]
    /\ resetTime = getNextResetTime(now)
    /\ InitTools /\ InitBroker

NextRestart ==
    \/ RestartTick
    \/ RestartFire
    \/ Restart
    \/ StoreRecordUsage
    \/ StoreLoadQuota

SpecRestart == InitRestartSpec /\ [][NextRestart]_vars

\* the latest 07:00 UTC at or before t
LastBoundary(t) ==
    IF t % DayMs >= 7 * HourMs THEN (t \div DayMs) * DayMs + 7 * HourMs
    ELSE (t \div DayMs - 1) * DayMs + 7 * HourMs

-----------------------------------------------------------------------------
(* generate calls repeated while earlier answers age in the cache *)

ServedTickMs == 1800 * 1000
MaxServedTicks == 2

\* half an hour passes between two calls
ServedTick ==
    /\ now < MaxServedTicks * ServedTickMs
    /\ \A p \in DOMAIN gen : gen[p].pc = "idle"
    /\ now' = now + ServedTickMs
    /\ UNCHANGED <<cacheVars, ledgerVars, toolVars, storeVars, brokerVars, issued>>

NextServed ==
    \/ \E p \in GenCallers, r \in GenRequests : GenCall(p, r) /\ UNCHANGED issued
    \/ \E p \in GenCallers : GenNet(p)
    \/ \E p \in GenCallers : GenBackoffEnd(p)
    \/ ServedTick

SpecServed == InitBrokerSpec /\ [][NextServed]_vars

\* C28: the step in which generate returns a cached response changes no
\* provider's currentUsage and no caller's hourly or daily counter and leaves
\* the entry returned as it was stored, timestamp included; no earlier step of
\* the call changes a counter either, the counters moving only in the step
\* that returns a fresh answer.
C28_CachedCallChargesNothing ==
    [][\A p \in DOMAIN gen :
          /\ (gen'[p] # gen[p] /\ gen'[p].out # "fresh") =>
                 providers' = providers /\ userQuotas' = userQuotas
          /\ (gen'[p] # gen[p] /\ gen'[p].out = "cached") =>
                 LET key == LlmKeyOf[gen'[p].req][gen'[p].ret.provider] IN
                 /\ key \in DOMAIN memoryCache /\ key \in DOMAIN memoryCache'
                 /\ memoryCache'[key] = memoryCache[key]]_vars

\* a call served from an entry stored half an hour earlier, after the first
\* provider had failed, with the tokens of the one fresh answer on the books
C28_Witness ==
    \E p \in DOMAIN gen :
        /\ gen[p].out = "cached"
        /\ gen[p].pc = "idle"
        /\ Len(gen[p].errors) = 1
        /\ memoryCache[LlmKeyOf[gen[p].req][gen[p].ret.provider]].timestamp < now
        /\ p \in DOMAIN userQuotas
        /\ userQuotas[p].daily = CompletionTokens
        /\ providers[gen[p].ret.provider].requests = 1

\* C29: in any ledger state, when canPerformOperation admits the unit cost of
\* a kind and at least one item is requested, optimizeOperation for that kind
\* returns at least 1 and at most the number requested, so a tool that passed
\* the admission check is not refused by the optimizer.
C29_AdmittedIsNeverOptimizedAway ==
    [][(/\ cacheRet'.op = "optimizeOperation"
        /\ canPerformOperation(config, usage, getOperationCost(cacheRet'.operation))
        /\ cacheRet'.requestedItems >= 1)
       => cacheRet'.value \in 1..cacheRet'.requestedItems]_vars

\* the last search the ledger admits (6900 + 100 = 7000) is kept, cut to 5
C29_Witness ==
    /\ cacheRet.op = "optimizeOperation"
    /\ cacheRet.operation = "channel_search"
    /\ cacheRet.requestedItems = 10
    /\ cacheRet.value = 5
    /\ usage = 6900
    /\ canPerformOperation(config, usage, getOperationCost("channel_search"))
    /\ ~canPerformOperation(config, usage, getOperationCost("channel_search") + 1)

\* the last unit of the budget buys one trending request in full
C29_WitnessLastUnit ==
    /\ cacheRet.op = "optimizeOperation"
    /\ cacheRet.operation = "trending"
    /\ cacheRet.requestedItems = 50
    /\ cacheRet.value = 50
    /\ usage = config.dailyLimit - config.reserveBuffer - 1

-----------------------------------------------------------------------------
(* generate calls whose provider calls settle and whose timers fire *)

\* every provider call returns or fails, and every backoff timer fires
GenFairness ==
    \A p \in GenCallers : WF_vars(GenNet(p)) /\ WF_vars(GenBackoffEnd(p))

SpecGenerate == InitBrokerSpec /\ [][NextBroker]_vars /\ GenFairness

\* no provider occurs twice
NoRepeat(seq) == \A a, b \in 1..Len(seq) : seq[a] = seq[b] => a = b

\* C30: a generate call hands no provider to executeRequest twice, makes at
\* most N attempts and waits at most N backoff delays, N being the number of
\* configured providers, and, its provider calls settling and its timers
\* firing, ends with a response or an error.
C30_GenerateTerminates ==
    /\ [](\A p \in DOMAIN gen :
             /\ NoRepeat(gen[p].tried)
             /\ Len(gen[p].tried) <= Cardinality(DOMAIN providers)
             /\ Len(gen[p].errors) <= Len(gen[p].tried))
    /\ [][\A p \in DOMAIN gen :
             (gen[p].pc # "backoff" /\ gen'[p].pc = "backoff") =>
                 /\ Len(gen'[p].errors) = Len(gen[p].errors) + 1
                 /\ Len(gen'[p].errors) <= Cardinality(DOMAIN providers)]_vars
    /\ \A p \in GenCallers :
          (gen[p].pc # "idle") ~>
              (gen[p].pc = "idle" /\ gen[p].out \in {"fresh", "cached", "aggregate"})

\* both providers were tried once each, both failed with a retryable error,
\* two delays were slept and the call ended with the aggregate
C30_Witness ==
    \E p \in DOMAIN gen :
        /\ gen[p].pc = "idle"
        /\ gen[p].out = "aggregate"
        /\ Cardinality(DOMAIN providers) = 2
        /\ Len(gen[p].tried) = 2
        /\ Len(gen[p].errors) = 2
        /\ gen[p].waited = exponentialBackoff(1) + exponentialBackoff(2)

====
